---- MODULE Spec2Model ----
\* Entity-matching core of src/utilities/sim_lib.py: text normalisation, title,
\* author and author-list similarity, and the Hungarian assignment, as one
\* state machine per call.  Indices are 1-based here and 0-based in the source.
EXTENDS Integers, Sequences, FiniteSets, TLC

\* ---------------------------------------------------------------- floats
\* A Python float is an IEEE-754 binary64.  Every value the similarity
\* functions produce lies in {0} \cup [2^-17, 8), so it is held exactly as an
\* integer count of 2^-70 in four little-endian limbs of LimbBits bits, and each
\* operation is the exact operation followed by rounding to nearest, ties to
\* even, at MantBits significant bits.
LimbBits == 20

\* significant bits of a binary64
MantBits == 53

Base == 2 ^ LimbBits

Pow2(k) == 2 ^ k

FZero == <<0, 0, 0, 0>>

\* the integer n, 0 <= n < 8, as a float: n * 2^70
FromInt(n) == <<0, 0, 0, n * 1024>>

FOne == FromInt(1)

BigAdd(x, y) ==
    LET s0 == x[1] + y[1]
        s1 == x[2] + y[2] + (s0 \div Base)
        s2 == x[3] + y[3] + (s1 \div Base)
        s3 == x[4] + y[4] + (s2 \div Base)
    IN <<s0 % Base, s1 % Base, s2 % Base, s3>>

\* x - y for x >= y
BigSub(x, y) ==
    LET d0 == x[1] - y[1]
        b0 == IF d0 < 0 THEN 1 ELSE 0
        d1 == x[2] - y[2] - b0
        b1 == IF d1 < 0 THEN 1 ELSE 0
        d2 == x[3] - y[3] - b1
        b2 == IF d2 < 0 THEN 1 ELSE 0
        d3 == x[4] - y[4] - b2
    IN <<d0 + b0 * Base, d1 + b1 * Base, d2 + b2 * Base, d3>>

FLt(x, y) ==
    \/ x[4] < y[4]
    \/ x[4] = y[4] /\ x[3] < y[3]
    \/ x[4] = y[4] /\ x[3] = y[3] /\ x[2] < y[2]
    \/ x[4] = y[4] /\ x[3] = y[3] /\ x[2] = y[2] /\ x[1] < y[1]

FLe(x, y) == x = y \/ FLt(x, y)

FMax(x, y) == IF FLt(x, y) THEN y ELSE x

RECURSIVE BitLen(_)
BitLen(n) == IF n = 0 THEN 0 ELSE 1 + BitLen(n \div 2)

BigBitLen(x) ==
    IF x[4] # 0 THEN 3 * LimbBits + BitLen(x[4])
    ELSE IF x[3] # 0 THEN 2 * LimbBits + BitLen(x[3])
    ELSE IF x[2] # 0 THEN LimbBits + BitLen(x[2])
    ELSE BitLen(x[1])

\* round to nearest, ties to even, at MantBits significant bits; sticky says the
\* exact value lies strictly above x (a division remainder was dropped)
RoundNearestEven(x, sticky) ==
    LET d == BigBitLen(x) - MantBits
    IN IF d <= 0 THEN x
       ELSE LET u == Pow2(d)
                r == x[1] % u
                half == u \div 2
                down == <<x[1] - r, x[2], x[3], x[4]>>
                odd == IF d = LimbBits THEN x[2] % 2 = 1 ELSE (x[1] \div u) % 2 = 1
                up == \/ r > half
                      \/ r = half /\ sticky
                      \/ r = half /\ ~sticky /\ odd
            IN IF up THEN BigAdd(down, <<u % Base, u \div Base, 0, 0>>) ELSE down

\* x + y
FAdd(x, y) == RoundNearestEven(BigAdd(x, y), FALSE)

\* x - y for x >= y (no similarity function ever subtracts a larger value)
FSub(x, y) == RoundNearestEven(BigSub(x, y), FALSE)

\* x / n for an integer 1 <= n <= 64
FDiv(x, n) ==
    LET c3 == x[4]
        c2 == (c3 % n) * Base + x[3]
        c1 == (c2 % n) * Base + x[2]
        c0 == (c1 % n) * Base + x[1]
        q == <<c0 \div n, c1 \div n, c2 \div n, c3 \div n>>
        rem == c0 % n
    IN IF BigBitLen(q) > MantBits THEN RoundNearestEven(q, rem # 0)
       ELSE IF 2 * rem > n \/ (2 * rem = n /\ q[1] % 2 = 1)
            THEN BigAdd(q, <<1, 0, 0, 0>>) ELSE q

\* the literals 0.6, 0.7, 0.8 of author_similarity: the doubles nearest 6/10,
\* 7/10 and 8/10
F06 == FDiv(FromInt(6), 10)

F07 == FDiv(FromInt(7), 10)

F08 == FDiv(FromInt(8), 10)

\* ---------------------------------------------------------------- values
\* Python values are tagged with their type; a str holds its characters, one
\* one-character string each (the accented letters of the stopword sets are
\* written a_grave, e_acute, i_grave, o_grave, u_grave).  Each type keeps its
\* payload in a field of its own, so values of different types compare unequal.
PyNone == [type |-> "NoneType"]

PyStr(cs) == [type |-> "str", chars |-> cs]

PyInt(n) == [type |-> "int", int |-> n]

PyList(xs) == [type |-> "list", items |-> xs]

IsStr(v) == v.type = "str"

IsList(v) == v.type = "list"

PyBool(b) == [type |-> "bool", bool |-> b]

\* a float argument: a finite value counted in halves, or nan, inf, -inf
PyFloat(h) == [type |-> "float", cls |-> "finite", halves |-> h]

PyNaN == [type |-> "float", cls |-> "nan"]

PyInf == [type |-> "float", cls |-> "inf"]

PyNegInf == [type |-> "float", cls |-> "-inf"]

\* isinstance(v, (int, float)); a bool is an int
IsNumber(v) == v.type \in {"int", "bool", "float"}

\* what a call left: a returned float, a raised exception, or nothing yet
Returned(f) == [kind |-> "return", val |-> f]

Raised(e) == [kind |-> "raise", exc |-> e]

Pending == [kind |-> "pending"]

\* a returned int, kept with its value as a float, and a returned None
ReturnedInt(n) == [kind |-> "return", type |-> "int", val |-> FromInt(n)]

ReturnedNone == [kind |-> "return", type |-> "NoneType"]

\* a value computed inside a function
Computed(v) == [kind |-> "value", val |-> v]

\* int(v) for a number v: a float is cut towards zero, nan raises ValueError,
\* an infinity raises OverflowError
IntOf(v) ==
    CASE v.type = "int" -> Computed(v.int)
      [] v.type = "bool" -> Computed(IF v.bool THEN 1 ELSE 0)
      [] v.type = "float" /\ v.cls = "finite" ->
             Computed(IF v.halves >= 0 THEN v.halves \div 2 ELSE -((-v.halves) \div 2))
      [] v.type = "float" /\ v.cls = "nan" -> Raised("ValueError")
      [] OTHER -> Raised("OverflowError")

\* ---------------------------------------------------------------- text
UpperChars == <<"A","B","C","D","E","F","G","H","I","J","K","L","M",
                "N","O","P","Q","R","S","T","U","V","W","X","Y","Z">>

LowerChars == <<"a","b","c","d","e","f","g","h","i","j","k","l","m",
                "n","o","p","q","r","s","t","u","v","w","x","y","z">>

DigitChars == {"0","1","2","3","4","5","6","7","8","9"}

AccentedChars == {"a_grave", "e_acute", "e_grave", "i_grave", "o_grave", "u_grave"}

SeqRange(s) == {s[i] : i \in DOMAIN s}

\* str.lower() on one character
LowerChar(c) ==
    IF \E i \in DOMAIN UpperChars : UpperChars[i] = c
    THEN LowerChars[CHOOSE i \in DOMAIN UpperChars : UpperChars[i] = c]
    ELSE c

Lower(cs) == [i \in DOMAIN cs |-> LowerChar(cs[i])]

\* [a-zA-Z0-9]
IsAsciiAlnum(c) == c \in SeqRange(UpperChars) \cup SeqRange(LowerChars) \cup DigitChars

\* \w of a str pattern: Unicode letters and digits, and the underscore
IsWordChar(c) == IsAsciiAlnum(c) \/ c \in AccentedChars \/ c = "_"

\* \s
IsSpaceChar(c) == c \in {" ", "\t", "\n"}

\* str.split(): the maximal runs of non-whitespace characters, in order
RECURSIVE SplitFrom(_, _, _)
SplitFrom(cs, i, cur) ==
    IF i > Len(cs) THEN (IF cur = <<>> THEN <<>> ELSE <<cur>>)
    ELSE IF IsSpaceChar(cs[i])
         THEN (IF cur = <<>> THEN <<>> ELSE <<cur>>) \o SplitFrom(cs, i + 1, <<>>)
         ELSE SplitFrom(cs, i + 1, Append(cur, cs[i]))

Split(cs) == SplitFrom(cs, 1, <<>>)

\* re.sub(r"[^a-zA-Z0-9]+", " ", s): every maximal run of other characters
\* becomes one space
RECURSIVE SubNonAlnumRuns(_, _)
SubNonAlnumRuns(cs, i) ==
    IF i > Len(cs) THEN <<>>
    ELSE IF IsAsciiAlnum(cs[i]) THEN <<cs[i]>> \o SubNonAlnumRuns(cs, i + 1)
         ELSE IF i > 1 /\ ~IsAsciiAlnum(cs[i - 1]) THEN SubNonAlnumRuns(cs, i + 1)
              ELSE <<" ">> \o SubNonAlnumRuns(cs, i + 1)

\* str.strip()
RECURSIVE Strip(_)
Strip(cs) ==
    IF cs = <<>> THEN cs
    ELSE IF IsSpaceChar(Head(cs)) THEN Strip(Tail(cs))
         ELSE IF IsSpaceChar(cs[Len(cs)]) THEN Strip(SubSeq(cs, 1, Len(cs) - 1))
              ELSE cs

\* re.sub(r"[^\w\s]", " ", name): every other character becomes a space
SubPunctuation(cs) ==
    [i \in DOMAIN cs |-> IF IsWordChar(cs[i]) \/ IsSpaceChar(cs[i]) THEN cs[i] ELSE " "]

\* ---------------------------------------------------------------- stopwords
\* IT_STOP (title stopwords) and STOPWORDS (honorifics), word for word
IT_STOP == {
    <<"a">>, <<"a","d">>, <<"a","l">>, <<"a","l","l","o">>, <<"a","i">>, <<"a","g","l","i">>,
    <<"a","l","l">>, <<"a","g","l">>, <<"a","l","l","a">>, <<"a","l","l","e">>, <<"c","o","l">>,
    <<"c","o","i">>, <<"c","o","n">>, <<"d","e","l","l","a">>, <<"d","e","l","l","e">>,
    <<"d","e","i">>, <<"d","e","l">>, <<"d","e","l","l","o">>, <<"d","e","g","l","i">>, <<"d","i">>,
    <<"d","a">>, <<"d","a","l">>, <<"d","a","l","l","o">>, <<"d","a","i">>, <<"d","a","g","l","i">>,
    <<"d","a","l","l","a">>, <<"d","a","l","l","e">>, <<"i","n">>, <<"n","e","l">>,
    <<"n","e","l","l","o">>, <<"n","e","l","l","a">>, <<"n","e","i">>, <<"n","e","g","l","i">>,
    <<"n","e","l","l","e">>, <<"s","u","l">>, <<"s","u","l","l","o">>, <<"s","u","l","l","a">>,
    <<"s","u","i">>, <<"s","u","g","l","i">>, <<"s","u","l","l","e">>, <<"t","r","a">>,
    <<"f","r","a">>, <<"s","u">>, <<"s","o","p","r","a">>, <<"s","o","t","t","o">>,
    <<"o","l","t","r","e">>, <<"c","o","n","t","r","o">>, <<"v","e","r","s","o">>,
    <<"e","n","t","r","o">>, <<"i","l">>, <<"l","o">>, <<"l","a">>, <<"i">>, <<"g","l","i">>,
    <<"l","e">>, <<"u","n">>, <<"u","n","o">>, <<"u","n","a">>, <<"l">>, <<"e">>, <<"e","d">>,
    <<"o">>, <<"o","p","p","u","r","e">>, <<"m","a">>, <<"p","e","r","o_grave">>,
    <<"a","n","c","h","e">>, <<"n","e">>, <<"n","e_acute">>, <<"c","h","e">>, <<"c","u","i">>,
    <<"c","o","m","e">>, <<"d","o","v","e">>, <<"q","u","a","n","d","o">>,
    <<"m","e","n","t","r","e">>, <<"s","e">>, <<"a","l","l","o","r","a">>,
    <<"q","u","i","n","d","i">>, <<"d","u","n","q","u","e">>, <<"p","o","i","c","h","e_acute">>,
    <<"p","e","r","c","h","e_acute">>, <<"n","o","n">>, <<"p","i","u_grave">>, <<"m","e","n","o">>,
    <<"m","a","i">>, <<"g","i","a_grave">>, <<"a","n","c","o","r","a">>,
    <<"s","e","m","p","r","e">>, <<"o","r","a">>, <<"a","d","e","s","s","o">>, <<"p","o","i">>,
    <<"c","o","s","i_grave">>, <<"s","o","l","o">>, <<"q","u","a","s","i">>,
    <<"m","o","l","t","o">>, <<"t","r","o","p","p","o">>, <<"p","o","c","o">>,
    <<"n","i","e","n","t","e">>, <<"n","u","l","l","a">>, <<"t","u","t","t","o">>,
    <<"o","g","n","i">>, <<"o","g","n","u","n","o">>, <<"q","u","e","s","t","o">>,
    <<"q","u","e","s","t","a">>, <<"q","u","e","s","t","i">>, <<"q","u","e","s","t","e">>,
    <<"q","u","e","l","l","o">>, <<"q","u","e","l","l","a">>, <<"q","u","e","l","l","i">>,
    <<"q","u","e","l","l","e">>, <<"c","i">>, <<"v","i">>, <<"m","i">>, <<"t","i">>, <<"s","i">>,
    <<"a","n">>, <<"t","h","e">>, <<"a","n","d">>, <<"o","r">>, <<"b","u","t">>, <<"i","f">>,
    <<"t","h","e","n">>, <<"s","o">>, <<"b","e","c","a","u","s","e">>, <<"a","s">>,
    <<"w","h","i","l","e">>, <<"u","n","t","i","l">>, <<"o","f">>, <<"a","t">>, <<"b","y">>,
    <<"f","o","r">>, <<"w","i","t","h">>, <<"a","b","o","u","t">>, <<"a","g","a","i","n","s","t">>,
    <<"b","e","t","w","e","e","n">>, <<"i","n","t","o">>, <<"t","h","r","o","u","g","h">>,
    <<"d","u","r","i","n","g">>, <<"b","e","f","o","r","e">>, <<"a","f","t","e","r">>,
    <<"a","b","o","v","e">>, <<"b","e","l","o","w">>, <<"t","o">>, <<"f","r","o","m">>, <<"u","p">>,
    <<"d","o","w","n">>, <<"o","u","t">>, <<"o","n">>, <<"o","f","f">>, <<"o","v","e","r">>,
    <<"u","n","d","e","r">>, <<"a","g","a","i","n">>, <<"f","u","r","t","h","e","r">>,
    <<"o","n","c","e">>, <<"h","e","r","e">>, <<"t","h","e","r","e">>, <<"w","h","e","n">>,
    <<"w","h","e","r","e">>, <<"w","h","y">>, <<"h","o","w">>, <<"a","n","y">>, <<"b","o","t","h">>,
    <<"e","a","c","h">>, <<"f","e","w">>, <<"m","o","r","e">>, <<"m","o","s","t">>,
    <<"o","t","h","e","r">>, <<"s","o","m","e">>, <<"s","u","c","h">>, <<"n","o">>, <<"n","o","r">>,
    <<"n","o","t">>, <<"o","n","l","y">>, <<"o","w","n">>, <<"s","a","m","e">>, <<"t","h","a","n">>,
    <<"t","o","o">>, <<"v","e","r","y">>, <<"c","a","n">>, <<"w","i","l","l">>, <<"j","u","s","t">>,
    <<"d","o","n">>, <<"s","h","o","u","l","d">>, <<"n","o","w">>, <<"i","s">>, <<"a","r","e">>,
    <<"w","a","s">>, <<"w","e","r","e">>, <<"b","e">>, <<"b","e","e","n">>, <<"b","e","i","n","g">>,
    <<"h","a","v","e">>, <<"h","a","s">>, <<"h","a","d">>, <<"d","o">>, <<"d","o","e","s">>,
    <<"d","i","d">>, <<"h","a","v","i","n","g">>, <<"y","o","u">>, <<"h","e">>, <<"s","h","e">>,
    <<"i","t">>, <<"w","e">>, <<"t","h","e","y">>, <<"m","e">>, <<"h","i","m">>, <<"h","e","r">>,
    <<"t","h","e","m">>, <<"m","y">>, <<"y","o","u","r">>, <<"y","o","u","r","s">>, <<"h","i","s">>,
    <<"t","h","e","i","r">>, <<"i","t","s">>, <<"o","u","r">>, <<"o","u","r","s">>,
    <<"t","h","e","i","r","s">>, <<"t","h","i","s">>, <<"t","h","a","t">>, <<"t","h","e","s","e">>,
    <<"t","h","o","s","e">>
}

STOPWORDS == {
    <<"d","r">>, <<"d","o","t","t">>, <<"d","o","t","t","o","r">>, <<"d","o","t","t","o","r","e">>,
    <<"d","o","t","t","s","s","a">>, <<"d","o","t","t",".","s","s","a">>,
    <<"d","o","t","t",".","s","s","o">>, <<"d","o","t","t",".","s","s","e">>, <<"p","r","o","f">>,
    <<"p","r","o","f","e","s","s","o","r">>, <<"p","r","o","f","e","s","s","o","r","e">>,
    <<"p","r","o","f","s","s","a">>, <<"p","r","o","f",".","s","s","a">>, <<"i","n","g">>,
    <<"a","r","c","h">>, <<"g","e","o","m">>, <<"r","a","g">>, <<"a","v","v">>,
    <<"n","o","t","a","i","o">>, <<"o","n">>, <<"o","n","o","r","e","v","o","l","e">>,
    <<"p","r","e","s">>, <<"p","r","e","s","i","d","e","n","t","e">>, <<"m","i","n">>,
    <<"m","i","n","i","s","t","r","o">>, <<"s","e","n">>, <<"s","e","n","a","t","o","r","e">>,
    <<"m","o","n","s">>, <<"m","o","n","s","i","g","n","o","r">>,
    <<"m","o","n","s","i","g","n","o","r","e">>, <<"r","e","v">>,
    <<"r","e","v","e","r","e","n","d","o">>, <<"d","o","n">>, <<"f","r","a">>,
    <<"p","a","d","r","e">>, <<"s","u","o","r">>, <<"s","i","g">>, <<"s","i","g","r","a">>,
    <<"s","i","g",".","r","a">>, <<"s","i","g","n","o","r">>, <<"s","i","g","n","o","r","e">>,
    <<"s","i","g","n","o","r","a">>, <<"s","i","g","n","o","r","i","n","a">>, <<"m","r">>,
    <<"m","r","s">>, <<"m","s">>, <<"m","i","s","s">>, <<"s","i","r">>, <<"l","a","d","y">>,
    <<"l","o","r","d">>, <<"m","a","d","a","m">>, <<"m","a","d","a","m","e">>,
    <<"r","e","v","e","r","e","n","d">>, <<"d","r","s">>, <<"d","o","c","t","o","r">>,
    <<"p","h","d">>, <<"m","d">>, <<"l","t">>, <<"s","g","t">>, <<"c","o","l">>, <<"g","e","n">>,
    <<"c","a","p">>, <<"m","a","g">>, <<"c","a","p","t">>, <<"l","t","c","o","l">>,
    <<"l","t","g","e","n">>, <<"m","a","j">>, <<"c","p","t">>,
    <<"c","o","l","o","n","n","e","l","l","o">>, <<"g","e","n","e","r","a","l","e">>,
    <<"c","a","p","i","t","a","n","o">>, <<"m","a","g","g","i","o","r","e">>
}

\* ---------------------------------------------------------------- titles
_tokens_fast(s) ==
    IF s = PyNone \/ ~IsStr(s) THEN {}
    ELSE {t \in SeqRange(Split(Strip(SubNonAlnumRuns(Lower(s.chars), 1)))) :
             Len(t) > 1 /\ t \notin IT_STOP}

\* faulty variant: only the first argument is validated
similarity_titles_first_only(s1, s2) ==
    IF s1 = PyNone \/ ~IsStr(s1) THEN FZero
    ELSE LET t1 == _tokens_fast(s1)
             t2 == _tokens_fast(s2)
             inter == Cardinality(t1 \cap t2)
             union == Cardinality(t1 \cup t2)
         IN IF t1 = {} /\ t2 = {} THEN FOne
            ELSE IF union # 0 THEN FDiv(FromInt(inter), union) ELSE FZero

\* faulty variant: the both-empty rule is applied before the validation
similarity_titles_empty_first(s1, s2) ==
    LET t1 == _tokens_fast(s1)
        t2 == _tokens_fast(s2)
        inter == Cardinality(t1 \cap t2)
        union == Cardinality(t1 \cup t2)
    IN IF t1 = {} /\ t2 = {} THEN FOne
       ELSE IF s1 = PyNone \/ s2 = PyNone \/ ~IsStr(s1) \/ ~IsStr(s2) THEN FZero
       ELSE IF union # 0 THEN FDiv(FromInt(inter), union) ELSE FZero

\* faulty variant: the union counts every token occurrence, duplicates included
similarity_titles_by_count(s1, s2) ==
    IF s1 = PyNone \/ s2 = PyNone \/ ~IsStr(s1) \/ ~IsStr(s2) THEN FZero
    ELSE LET l1 == Split(Strip(SubNonAlnumRuns(Lower(s1.chars), 1)))
             l2 == Split(Strip(SubNonAlnumRuns(Lower(s2.chars), 1)))
             Keep(t) == Len(t) > 1 /\ t \notin IT_STOP
             k1 == SelectSeq(l1, Keep)
             k2 == SelectSeq(l2, Keep)
             inter == Cardinality(SeqRange(k1) \cap SeqRange(k2))
             union == Len(k1) + Len(k2) - inter
         IN IF k1 = <<>> /\ k2 = <<>> THEN FOne
            ELSE IF union # 0 THEN FDiv(FromInt(inter), union) ELSE FZero

similarity_titles(s1, s2) ==
    IF s1 = PyNone \/ s2 = PyNone \/ ~IsStr(s1) \/ ~IsStr(s2) THEN FZero
    ELSE LET t1 == _tokens_fast(s1)
             t2 == _tokens_fast(s2)
             inter == Cardinality(t1 \cap t2)
             union == Cardinality(t1 \cup t2)
         IN IF t1 = {} /\ t2 = {} THEN FOne
            ELSE IF union # 0 THEN FDiv(FromInt(inter), union) ELSE FZero

\* ---------------------------------------------------------------- authors
\* faulty variant: the name is not tested but converted with str()
normalize_author_coerced(name) ==
    LET text == IF name = PyNone THEN <<"N","o","n","e">>
                ELSE IF ~IsStr(name) THEN <<"7">>
                ELSE name.chars
        Keep(t) == t # <<>> /\ t \notin STOPWORDS
    IN SelectSeq(Split(SubPunctuation(Lower(text))), Keep)

normalize_author(name) ==
    IF name = PyNone \/ ~IsStr(name) THEN <<>>
    ELSE LET Keep(t) == t # <<>> /\ t \notin STOPWORDS
         IN SelectSeq(Split(SubPunctuation(Lower(name.chars))), Keep)

initials(tokens) == [i \in DOMAIN tokens |-> tokens[i][1]]

\* faulty variant: a rule that fires sets the score instead of raising it
author_similarity_rule_sets(a, b) ==
    LET ta == normalize_author(a)
        tb == normalize_author(b)
        inter == Cardinality(SeqRange(ta) \cap SeqRange(tb))
        union == Cardinality(SeqRange(ta) \cup SeqRange(tb))
        base0 == IF union # 0 THEN FDiv(FromInt(inter), union) ELSE FZero
        ia == initials(ta)
        ib == initials(tb)
        base1 == IF ia = ib /\ ia # <<>> THEN F06 ELSE base0
        base2 == IF ta[Len(ta)] = tb[Len(tb)]
                 THEN (IF ta[1][1] = tb[1][1] THEN F08 ELSE F07)
                 ELSE base1
    IN IF ta = <<>> \/ tb = <<>> THEN FZero
       ELSE IF ta = tb THEN FOne
       ELSE base2

\* faulty variant: the common tokens are counted against the tokens of a alone
author_similarity_over_first(a, b) ==
    LET ta == normalize_author(a)
        tb == normalize_author(b)
        inter == Cardinality(SeqRange(ta) \cap SeqRange(tb))
        union == Cardinality(SeqRange(ta))
        base0 == IF union # 0 THEN FDiv(FromInt(inter), union) ELSE FZero
        ia == initials(ta)
        ib == initials(tb)
        base1 == IF ia = ib /\ ia # <<>> THEN FMax(base0, F06) ELSE base0
        base2 == IF ta[Len(ta)] = tb[Len(tb)]
                 THEN (IF ta[1][1] = tb[1][1] THEN FMax(base1, F08) ELSE FMax(base1, F07))
                 ELSE base1
    IN IF ta = <<>> \/ tb = <<>> THEN FZero
       ELSE IF ta = tb THEN FOne
       ELSE base2

author_similarity(a, b) ==
    LET ta == normalize_author(a)
        tb == normalize_author(b)
        inter == Cardinality(SeqRange(ta) \cap SeqRange(tb))
        union == Cardinality(SeqRange(ta) \cup SeqRange(tb))
        base0 == IF union # 0 THEN FDiv(FromInt(inter), union) ELSE FZero
        ia == initials(ta)
        ib == initials(tb)
        base1 == IF ia = ib /\ ia # <<>> THEN FMax(base0, F06) ELSE base0
        base2 == IF ta[Len(ta)] = tb[Len(tb)]
                 THEN (IF ta[1][1] = tb[1][1] THEN FMax(base1, F08) ELSE FMax(base1, F07))
                 ELSE base1
    IN IF ta = <<>> \/ tb = <<>> THEN FZero
       ELSE IF ta = tb THEN FOne
       ELSE base2

\* ---------------------------------------------------------------- years
\* the literals of similarity_years: the doubles nearest 1/2, 3/10, 1/5, 1/10
\* and 1/20
F05 == FDiv(FromInt(1), 2)

F03 == FDiv(FromInt(3), 10)

F02 == FDiv(FromInt(1), 5)

F01 == FDiv(FromInt(1), 10)

F005 == FDiv(FromInt(1), 20)

Abs(n) == IF n >= 0 THEN n ELSE -n

\* faulty variant: "<" for "<=" at the upper end of every step
YearSteps_exclusive(years_dif) ==
    IF years_dif = 0 THEN ReturnedInt(1)
    ELSE IF years_dif > 0 /\ years_dif < 5 THEN Returned(F07)
    ELSE IF years_dif >= 5 /\ years_dif < 10 THEN Returned(F05)
    ELSE IF years_dif >= 10 /\ years_dif < 20 THEN Returned(F03)
    ELSE IF years_dif >= 20 /\ years_dif < 50 THEN Returned(F02)
    ELSE IF years_dif >= 50 /\ years_dif < 100 THEN Returned(F01)
    ELSE IF years_dif >= 100 THEN Returned(F005)
    ELSE ReturnedNone

\* the chain of returns of similarity_years; the first is "return 1", an int,
\* and a difference no test accepts falls off the end, which returns None
YearSteps(years_dif) ==
    IF years_dif = 0 THEN ReturnedInt(1)
    ELSE IF years_dif > 0 /\ years_dif <= 5 THEN Returned(F07)
    ELSE IF years_dif > 5 /\ years_dif <= 10 THEN Returned(F05)
    ELSE IF years_dif > 10 /\ years_dif <= 20 THEN Returned(F03)
    ELSE IF years_dif > 20 /\ years_dif <= 50 THEN Returned(F02)
    ELSE IF years_dif > 50 /\ years_dif <= 100 THEN Returned(F01)
    ELSE IF years_dif > 100 THEN Returned(F005)
    ELSE ReturnedNone

\* int(year1) is tried first and then int(year2); ValueError and TypeError are
\* caught, any other exception leaves the function
similarity_years(year1, year2) ==
    IF year1 = PyNone \/ year2 = PyNone \/ ~IsNumber(year1) \/ ~IsNumber(year2)
    THEN Returned(FZero)
    ELSE LET i1 == IntOf(year1)
             i2 == IntOf(year2)
             Caught(r) == r.exc \in {"ValueError", "TypeError"}
         IN IF i1.kind = "raise" THEN (IF Caught(i1) THEN Returned(FZero) ELSE i1)
            ELSE IF i2.kind = "raise" THEN (IF Caught(i2) THEN Returned(FZero) ELSE i2)
            ELSE YearSteps(Abs(i1.val - i2.val))

\* ---------------------------------------------------------------- bounds
\* longest author list
MaxLen == 3

\* largest cost matrix handed to hungarian_min_cost directly
MaxN == 3

\* longest title string
MaxTitleLen == 5

\* most words in a name handed to author_similarity directly
MaxWords == 2

\* longest title a stopword is appended to
MaxStemLen == 3

\* the earliest year and the widest gap between two years
FirstYear == 1900

MaxYearGap == 101

\* ---------------------------------------------------------------- inputs
\* one author as three sources write the name: "Li Wu", "Wu, Li", "L. Wu"
NameLiWu == PyStr(<<"L","i"," ","W","u">>)

NameWuLi == PyStr(<<"W","u",","," ","L","i">>)

NameLWu == PyStr(<<"L","."," ","W","u">>)

AuthorNames == {NameLiWu, NameWuLi, NameLWu}

SeqsUpTo(S, n) == UNION {[1..k -> S] : k \in 0..n}

\* an author-list argument: a list of names, None, or a value that is no list
ListInputs == {PyNone, PyInt(7)} \cup {PyList(l) : l \in SeqsUpTo(AuthorNames, MaxLen)}

\* the entries of a cost matrix handed to hungarian_min_cost directly
CostValues == {FZero, FOne}

CostMatrices == UNION {[1..n -> [1..n -> CostValues]] : n \in 1..MaxN}

TitleChars == {"T", "a", "-"}

\* a title argument: a string, None, or a value that is no string
TitleInputs == {PyNone, PyInt(7)} \cup {PyStr(cs) : cs \in SeqsUpTo(TitleChars, MaxTitleLen)}

\* the words author names are assembled from: given names and surnames that
\* share first letters, an abbreviated given name, an honorific
NameWords == {<<"L","i">>, <<"L",".">>, <<"W","u">>, <<"W","a">>, <<"X","u">>, <<"D","r">>}

\* " ".join(words)
RECURSIVE JoinWords(_)
JoinWords(ws) ==
    IF ws = <<>> THEN <<>>
    ELSE IF Len(ws) = 1 THEN ws[1]
         ELSE ws[1] \o <<" ">> \o JoinWords(Tail(ws))

\* a name argument: a string of up to MaxWords words, None, or a value that is
\* no string
NameInputs ==
    {PyNone, PyInt(7)} \cup {PyStr(JoinWords(ws)) : ws \in SeqsUpTo(NameWords, MaxWords)}

\* the name arguments that are strings
NameStrings == {v \in NameInputs : IsStr(v)}

\* h + " " + a for a word h and a string a
Prefixed(h, a) == PyStr(h \o <<" ">> \o a.chars)

\* the titles a stopword is appended to
StemTitles == {PyStr(cs) : cs \in SeqsUpTo(TitleChars, MaxStemLen)}

\* t + " " + w for a string t and a word w
Appended(t, w) == PyStr(t.chars \o <<" ">> \o w)

\* integer years
Years == FirstYear..(FirstYear + MaxYearGap)

\* y2 moved one year further from y1
OneFurther(y1, y2) == IF y2 >= y1 THEN y2 + 1 ELSE y2 - 1

\* a year argument of any kind: None, a string, a bool, floats that int()
\* converts and floats it does not, ints
YearInputs ==
    {PyNone, PyStr(<<"1","9","0","0">>), PyBool(TRUE), PyNaN, PyInf, PyNegInf}
        \cup {PyFloat(2 * FirstYear + h) : h \in 0..3}
        \cup {PyInt(FirstYear + d) : d \in 0..3}

\* what an author list can hold: names, None, a value that is no string
ListElements == AuthorNames \cup {PyNone, PyInt(7)}

\* an author-list argument with elements that are no names
MixedListInputs ==
    {PyNone, PyInt(7)} \cup {PyList(l) : l \in SeqsUpTo({NameLiWu, PyNone, PyInt(7)}, MaxLen)}

\* one call of a caller: the function and its two arguments
Call(f, x, y) == [fn |-> f, a |-> x, b |-> y]

\* the calls of a session: every core function on a few arguments, among them
\* lists whose assignment takes an adjustment and an augmentation
SessionLists ==
    {PyNone, PyList(<<>>), PyList(<<NameLiWu>>), PyList(<<NameWuLi, NameLiWu>>),
     PyList(<<NameLWu, NameLWu, NameLiWu>>), PyList(<<NameLWu, NameLiWu, NameLiWu>>)}

SessionTitles == {PyNone, PyStr(<<"T","a","-","a","a">>), PyStr(<<"a","a">>)}

SessionYears == {PyNone, PyInt(FirstYear), PyInt(FirstYear + 7), PyFloat(2 * FirstYear + 1)}

SessionCalls ==
    {Call("list_similarities", a, b) : a \in SessionLists, b \in SessionLists}
        \cup {Call("similarity_titles", a, b) : a \in SessionTitles, b \in SessionTitles}
        \cup {Call("author_similarity", a, b) : a \in AuthorNames, b \in AuthorNames}
        \cup {Call("similarity_years", a, b) : a \in SessionYears, b \in SessionYears}

\* the orders a list can be handed over in
Reorderings(l) ==
    {[i \in DOMAIN l |-> l[p[i]]] :
        p \in {q \in [DOMAIN l -> DOMAIN l] : \A i \in DOMAIN l : \E j \in DOMAIN l : q[j] = i}}

AuthorLists == SeqsUpTo(AuthorNames, MaxLen) \ {<<>>}

\* ---------------------------------------------------------------- state
VARIABLES
    pc,            \* where the running call stands
    lst1, lst2,    \* the two author-list arguments
    sim_matrix,    \* similarity_authors: sim_matrix
    used_b,        \* similarity_authors: used_b
    total,         \* similarity_authors: total
    row,           \* similarity_authors: index of the row the loop is at
    greedy_result, \* what similarity_authors left
    sim,           \* similarity_authors_hungarian: sim
    cost,          \* the matrix handed to hungarian_min_cost
    C,             \* hungarian_min_cost: working copy
    mask,          \* hungarian_min_cost: 0 unmarked, 1 starred, 2 primed
    row_cover,     \* hungarian_min_cost: row_cover
    col_cover,     \* hungarian_min_cost: col_cover
    count,         \* hungarian_min_cost: count
    assignment,    \* hungarian_min_cost: the returned list of (row, column)
    last,          \* the step of hungarian_min_cost taken last
    hung_result,   \* what similarity_authors_hungarian left
    s1, s2,        \* the two title arguments
    titles_result, \* what similarity_titles left
    args,          \* the calls a caller makes, in order
    ret,           \* what the calls made so far left
    heap,          \* the list objects of concurrent calls, by reference
    frames,        \* the locals of each thread's call of hungarian_min_cost
    works_match,   \* works_match.py: the globals of the running script
    authors_match, \* authors_match.py: the globals of the running script
    db             \* db_utils: the connection and cursor of the running call

vars == <<pc, lst1, lst2, sim_matrix, used_b, total, row, greedy_result, sim, cost, C,
          mask, row_cover, col_cover, count, assignment, last, hung_result, s1, s2,
          titles_result, args, ret, heap, frames, works_match, authors_match, db>>

greedyVars == <<sim_matrix, used_b, total, row, greedy_result>>

hungVars == <<C, mask, row_cover, col_cover, count, assignment, last>>

titleVars == <<s1, s2, titles_result>>

callVars == <<args, ret>>

threadVars == <<heap, frames>>

scriptVars == <<works_match, authors_match, db>>

\* everything but the scripts
coreVars ==
    <<pc, lst1, lst2, greedyVars, sim, cost, hungVars, hung_result, titleVars, args, ret,
      heap, frames>>

Max(a, b) == IF a >= b THEN a ELSE b

\* ---------------------------------------------------------------- greedy
\* author_similarity over the elements the lists are drawn from, evaluated once
AuthorSimTable == [a \in ListElements, b \in ListElements |-> author_similarity(a, b)]

\* the matrix [[author_similarity(a, b) for b in l2] for a in l1]
SimMatrix(l1, l2) ==
    [i \in DOMAIN l1 |-> [j \in DOMAIN l2 |-> AuthorSimTable[l1[i], l2[j]]]]

\* the inner loop of similarity_authors over one row: <<best, best_idx>>, with
\* best_idx = 0 for None.  best is -1 exactly while best_idx is None, and every
\* score is >= 0, so "val > best" holds then.
\* faulty variant: "val >= best", which keeps the last of equal scores
RECURSIVE ScanRowLastOfEqual(_, _, _, _, _)
ScanRowLastOfEqual(vals, j, used, best, best_idx) ==
    IF j > Len(vals) THEN <<best, best_idx>>
    ELSE IF j \notin used /\ (best_idx = 0 \/ FLe(best, vals[j]))
         THEN ScanRowLastOfEqual(vals, j + 1, used, vals[j], j)
         ELSE ScanRowLastOfEqual(vals, j + 1, used, best, best_idx)

RECURSIVE ScanRow(_, _, _, _, _)
ScanRow(vals, j, used, best, best_idx) ==
    IF j > Len(vals) THEN <<best, best_idx>>
    ELSE IF j \notin used /\ (best_idx = 0 \/ FLt(best, vals[j]))
         THEN ScanRow(vals, j + 1, used, vals[j], j)
         ELSE ScanRow(vals, j + 1, used, best, best_idx)

\* faulty variant: one empty list is scored like two empty lists
GreedyEarlyReturnAnyEmpty(l1, l2) ==
    IF l1 = PyNone \/ l2 = PyNone \/ ~IsList(l1) \/ ~IsList(l2) THEN Returned(FZero)
    ELSE IF l1.items = <<>> \/ l2.items = <<>> THEN Returned(FOne)
    ELSE Pending

\* the early returns of similarity_authors; Pending when none applies
GreedyEarlyReturn(l1, l2) ==
    IF l1 = PyNone \/ l2 = PyNone \/ ~IsList(l1) \/ ~IsList(l2) THEN Returned(FZero)
    ELSE IF l1.items = <<>> /\ l2.items = <<>> THEN Returned(FOne)
    ELSE IF l1.items = <<>> \/ l2.items = <<>> THEN Returned(FZero)
    ELSE Pending

\* faulty variant: the total returned without normalisation
GreedyResultUndivided(t, l1, l2) == t

\* total / max(len(lst1), len(lst2))
GreedyResult(t, l1, l2) == FDiv(t, Max(Len(l1.items), Len(l2.items)))

\* similarity_authors, up to the similarity matrix
GreedyCall ==
    /\ pc = "sa_call"
    /\ IF GreedyEarlyReturn(lst1, lst2) # Pending
       THEN /\ greedy_result' = GreedyEarlyReturn(lst1, lst2)
            /\ pc' = "sah_call"
            /\ UNCHANGED <<sim_matrix, used_b, total, row>>
       ELSE /\ sim_matrix' = SimMatrix(lst1.items, lst2.items)
            /\ used_b' = {}
            /\ total' = FZero
            /\ row' = 1
            /\ pc' = "sa_loop"
            /\ UNCHANGED greedy_result
    /\ UNCHANGED <<lst1, lst2, sim, cost, hungVars, hung_result, titleVars, callVars, threadVars, scriptVars>>

\* one iteration of "for row in sim_matrix"
GreedyRow ==
    /\ pc = "sa_loop"
    /\ row <= Len(sim_matrix)
    /\ LET p == ScanRow(sim_matrix[row], 1, used_b, FZero, 0)
       IN IF p[2] # 0
          THEN /\ used_b' = used_b \cup {p[2]}
               /\ total' = FAdd(total, p[1])
          ELSE UNCHANGED <<used_b, total>>
    /\ row' = row + 1
    /\ UNCHANGED <<pc, lst1, lst2, sim_matrix, greedy_result, sim, cost, hungVars,
                   hung_result, titleVars, callVars, threadVars, scriptVars>>

\* return total / max(len(lst1), len(lst2))
GreedyReturn ==
    /\ pc = "sa_loop"
    /\ row > Len(sim_matrix)
    /\ greedy_result' = Returned(GreedyResult(total, lst1, lst2))
    /\ pc' = "sah_call"
    /\ UNCHANGED <<lst1, lst2, sim_matrix, used_b, total, row, sim, cost, hungVars,
                   hung_result, titleVars, callVars, threadVars, scriptVars>>

\* "for row in sim_matrix" from row r on: the total
RECURSIVE GreedyRows(_, _, _, _)
GreedyRows(sm, r, t, used) ==
    IF r > Len(sm) THEN t
    ELSE LET p == ScanRow(sm[r], 1, used, FZero, 0)
         IN IF p[2] # 0 THEN GreedyRows(sm, r + 1, FAdd(t, p[1]), used \cup {p[2]})
            ELSE GreedyRows(sm, r + 1, t, used)

\* similarity_authors as a function of its two arguments
similarity_authors(l1, l2) ==
    IF GreedyEarlyReturn(l1, l2) # Pending THEN GreedyEarlyReturn(l1, l2).val
    ELSE GreedyResult(GreedyRows(SimMatrix(l1.items, l2.items), 1, FZero, {}), l1, l2)

\* ---------------------------------------------------------------- hungarian
RECURSIVE SeqMin(_, _)
SeqMin(vals, i) ==
    IF i = Len(vals) THEN vals[i]
    ELSE LET m == SeqMin(vals, i + 1) IN IF FLt(m, vals[i]) THEN m ELSE vals[i]

Column(M, j) == [i \in DOMAIN M |-> M[i][j]]

\* row reduction
RowReduce(M) == [i \in DOMAIN M |-> [j \in DOMAIN M |-> FSub(M[i][j], SeqMin(M[i], 1))]]

\* column reduction
ColReduce(M) ==
    [i \in DOMAIN M |-> [j \in DOMAIN M |-> FSub(M[i][j], SeqMin(Column(M, j), 1))]]

\* faulty variant: the starring scan ignores the columns already taken
RECURSIVE StarScanRowsOnly(_, _, _, _, _)
StarScanRowsOnly(M, k, mk, rc, cc) ==
    LET N == Len(M)
        i == (k \div N) + 1
        j == (k % N) + 1
    IN IF k >= N * N THEN mk
       ELSE IF M[i][j] = FZero /\ ~rc[i]
            THEN StarScanRowsOnly(M, k + 1, [mk EXCEPT ![i][j] = 1],
                                  [rc EXCEPT ![i] = TRUE], cc)
            ELSE StarScanRowsOnly(M, k + 1, mk, rc, cc)

\* the starring scan over the cells in row-major order, k = 0 .. N*N - 1:
\* <<mask, row_cover, col_cover>>
RECURSIVE StarScan(_, _, _, _, _)
StarScan(M, k, mk, rc, cc) ==
    LET N == Len(M)
        i == (k \div N) + 1
        j == (k % N) + 1
    IN IF k >= N * N THEN mk
       ELSE IF M[i][j] = FZero /\ ~rc[i] /\ ~cc[j]
            THEN StarScan(M, k + 1, [mk EXCEPT ![i][j] = 1],
                          [rc EXCEPT ![i] = TRUE], [cc EXCEPT ![j] = TRUE])
            ELSE StarScan(M, k + 1, mk, rc, cc)

AllFalse(N) == [i \in 1..N |-> FALSE]

InitialStars(M) ==
    StarScan(M, 0, [i \in DOMAIN M |-> [j \in DOMAIN M |-> 0]],
             AllFalse(Len(M)), AllFalse(Len(M)))

\* cover_star_columns: the covers after it (its return value is CoveredCount)
cover_star_columns(mk, cc) ==
    [j \in DOMAIN cc |-> cc[j] \/ \E i \in DOMAIN mk : mk[i][j] = 1]

CoveredCount(cc) == Cardinality({j \in DOMAIN cc : cc[j]})

\* find_a_zero: <<i, j>>, or <<0, 0>> for (None, None)
find_a_zero(M, rc, cc) ==
    LET Z == {p \in (DOMAIN M) \X (DOMAIN M) : ~rc[p[1]] /\ ~cc[p[2]] /\ M[p[1]][p[2]] = FZero}
    IN IF Z = {} THEN <<0, 0>>
       ELSE CHOOSE p \in Z : \A q \in Z : p[1] < q[1] \/ (p[1] = q[1] /\ p[2] <= q[2])

\* find_star_in_row, find_star_in_col, find_prime_in_row: 0 for None
FirstIn(S) == IF S = {} THEN 0 ELSE CHOOSE x \in S : \A y \in S : x <= y

find_star_in_row(mk, r) == FirstIn({j \in DOMAIN mk : mk[r][j] = 1})

find_star_in_col(mk, c) == FirstIn({i \in DOMAIN mk : mk[i][c] = 1})

find_prime_in_row(mk, r) == FirstIn({j \in DOMAIN mk : mk[r][j] = 2})

\* faulty variant: the smallest value of the whole matrix, covered or not
smallest_uncovered_any(M, rc, cc) ==
    LET U == (DOMAIN M) \X (DOMAIN M)
        p == CHOOSE p \in U : \A q \in U : FLe(M[p[1]][p[2]], M[q[1]][q[2]])
    IN M[p[1]][p[2]]

\* smallest_uncovered
smallest_uncovered(M, rc, cc) ==
    LET U == {p \in (DOMAIN M) \X (DOMAIN M) : ~rc[p[1]] /\ ~cc[p[2]]}
    IN IF U = {} THEN FZero
       ELSE LET p == CHOOSE p \in U : \A q \in U : FLe(M[p[1]][p[2]], M[q[1]][q[2]])
            IN M[p[1]][p[2]]

\* the matrix adjustment: add m to covered rows, subtract it from uncovered columns
AdjustMatrix(M, rc, cc) ==
    LET m == smallest_uncovered(M, rc, cc)
    IN [i \in DOMAIN M |-> [j \in DOMAIN M |->
          LET a == IF rc[i] THEN FAdd(M[i][j], m) ELSE M[i][j]
          IN IF ~cc[j] THEN FSub(a, m) ELSE a]]

\* the alternating path from a primed zero at (r, c); a starred row without a
\* primed cell gives the column 0 (None), which the next find_star_in_col
\* cannot index: a TypeError that nothing catches
RECURSIVE BuildPath(_, _, _)
BuildPath(mk, c, path) ==
    LET star_row == IF c = 0 THEN 0 ELSE find_star_in_col(mk, c)
    IN IF star_row = 0 THEN path
       ELSE LET prime_col == find_prime_in_row(mk, star_row)
            IN BuildPath(mk, prime_col,
                         path \o << <<star_row, c>>, <<star_row, prime_col>> >>)

PathBroken(path) == \E k \in DOMAIN path : path[k][2] = 0

\* faulty variant: the primed cells are starred, the starred ones are kept
RECURSIVE augment_path_keep_stars(_, _, _)
augment_path_keep_stars(mk, path, k) ==
    IF k > Len(path) THEN mk
    ELSE LET r == path[k][1]
             c == path[k][2]
         IN IF mk[r][c] = 2 THEN augment_path_keep_stars([mk EXCEPT ![r][c] = 1], path, k + 1)
            ELSE augment_path_keep_stars(mk, path, k + 1)

\* augment_path: unstar the starred, star the primed cells of the path, in order
RECURSIVE augment_path(_, _, _)
augment_path(mk, path, k) ==
    IF k > Len(path) THEN mk
    ELSE LET r == path[k][1]
             c == path[k][2]
         IN IF mk[r][c] = 1 THEN augment_path([mk EXCEPT ![r][c] = 0], path, k + 1)
            ELSE IF mk[r][c] = 2 THEN augment_path([mk EXCEPT ![r][c] = 1], path, k + 1)
            ELSE augment_path(mk, path, k + 1)

\* faulty variant: the primes are left in the mask
clear_primes_none(mk) == mk

clear_primes(mk) == [i \in DOMAIN mk |-> [j \in DOMAIN mk |-> IF mk[i][j] = 2 THEN 0 ELSE mk[i][j]]]

\* the final extraction: for each row its first starred column
RECURSIVE ExtractAssignment(_, _)
ExtractAssignment(mk, i) ==
    IF i > Len(mk) THEN <<>>
    ELSE LET j == find_star_in_row(mk, i)
         IN (IF j = 0 THEN <<>> ELSE << <<i, j>> >>) \o ExtractAssignment(mk, i + 1)

\* faulty variant: the column covers a call of the same size left behind are
\* not cleared before the stars are covered
HungInitStaleCovers ==
    /\ pc = "h_init"
    /\ LET R == ColReduce(RowReduce(cost))
           mk == InitialStars(R)
           cc == cover_star_columns(mk, IF Len(col_cover) = Len(cost) THEN col_cover
                                        ELSE AllFalse(Len(cost)))
       IN /\ C' = R
          /\ mask' = mk
          /\ row_cover' = AllFalse(Len(cost))
          /\ col_cover' = cc
          /\ count' = CoveredCount(cc)
    /\ last' = "init"
    /\ pc' = "h_loop"
    /\ UNCHANGED <<lst1, lst2, greedyVars, sim, cost, assignment, hung_result, titleVars, callVars, threadVars, scriptVars>>

\* faulty variant: no copy is made, the reductions work on the caller's matrix
HungInitInPlace ==
    /\ pc = "h_init"
    /\ LET R == ColReduce(RowReduce(cost))
           mk == InitialStars(R)
           cc == cover_star_columns(mk, AllFalse(Len(cost)))
       IN /\ C' = R
          /\ cost' = R
          /\ mask' = mk
          /\ row_cover' = AllFalse(Len(cost))
          /\ col_cover' = cc
          /\ count' = CoveredCount(cc)
    /\ last' = "init"
    /\ pc' = "h_loop"
    /\ UNCHANGED <<lst1, lst2, greedyVars, sim, assignment, hung_result, titleVars, callVars, threadVars, scriptVars>>

\* hungarian_min_cost up to the main loop: copy, reduce, star, cover
HungInit ==
    /\ pc = "h_init"
    /\ LET R == ColReduce(RowReduce(cost))
           mk == InitialStars(R)
           cc == cover_star_columns(mk, AllFalse(Len(cost)))
       IN /\ C' = R
          /\ mask' = mk
          /\ row_cover' = AllFalse(Len(cost))
          /\ col_cover' = cc
          /\ count' = CoveredCount(cc)
    /\ last' = "init"
    /\ pc' = "h_loop"
    /\ UNCHANGED <<lst1, lst2, greedyVars, sim, cost, assignment, hung_result, titleVars, callVars, threadVars, scriptVars>>

\* one pass of "while z_r is None": no uncovered zero, so adjust the matrix
HungAdjust ==
    /\ pc = "h_loop"
    /\ count < Len(C)
    /\ find_a_zero(C, row_cover, col_cover) = <<0, 0>>
    /\ C' = AdjustMatrix(C, row_cover, col_cover)
    /\ last' = "adjust"
    /\ UNCHANGED <<pc, lst1, lst2, greedyVars, sim, cost, mask, row_cover, col_cover,
                   count, assignment, hung_result, titleVars, callVars, threadVars, scriptVars>>

\* prime the uncovered zero; its row has a star: cover the row, uncover the
\* star's column
HungPrimeCover ==
    /\ pc = "h_loop"
    /\ count < Len(C)
    /\ LET z == find_a_zero(C, row_cover, col_cover)
       IN /\ z # <<0, 0>>
          /\ find_star_in_row(mask, z[1]) # 0
          /\ mask' = [mask EXCEPT ![z[1]][z[2]] = 2]
          /\ row_cover' = [row_cover EXCEPT ![z[1]] = TRUE]
          /\ col_cover' = [col_cover EXCEPT ![find_star_in_row(mask, z[1])] = FALSE]
    /\ last' = "prime"
    /\ UNCHANGED <<pc, lst1, lst2, greedyVars, sim, cost, C, count, assignment,
                   hung_result, titleVars, callVars, threadVars, scriptVars>>

\* prime the uncovered zero; its row has no star: augment along the path
HungAugment ==
    /\ pc = "h_loop"
    /\ count < Len(C)
    /\ LET z == find_a_zero(C, row_cover, col_cover)
       IN /\ z # <<0, 0>>
          /\ find_star_in_row(mask, z[1]) = 0
          /\ LET primed == [mask EXCEPT ![z[1]][z[2]] = 2]
                 path == BuildPath(primed, z[2], << z >>)
             IN IF PathBroken(path)
                THEN /\ pc' = "done"
                     /\ hung_result' = Raised("TypeError")
                     /\ mask' = primed
                     /\ UNCHANGED <<row_cover, col_cover, count>>
                ELSE LET mk == clear_primes(augment_path(primed, path, 1))
                         cc == cover_star_columns(mk, AllFalse(Len(C)))
                     IN /\ mask' = mk
                        /\ row_cover' = AllFalse(Len(C))
                        /\ col_cover' = cc
                        /\ count' = CoveredCount(cc)
                        /\ pc' = "h_loop"
                        /\ UNCHANGED hung_result
    /\ last' = "augment"
    /\ UNCHANGED <<lst1, lst2, greedyVars, sim, cost, C, assignment, titleVars, callVars, threadVars, scriptVars>>

\* count reached N: extract the assignment and return it
HungExtract ==
    /\ pc = "h_loop"
    /\ count >= Len(C)
    /\ assignment' = ExtractAssignment(mask, 1)
    /\ last' = "extract"
    /\ pc' = "h_return"
    /\ UNCHANGED <<lst1, lst2, greedyVars, sim, cost, C, mask, row_cover, col_cover,
                   count, hung_result, titleVars, callVars, threadVars, scriptVars>>

\* ---------------------------------------------------------------- optimal
\* the argument types of this model that have a len(): only the list
HasLen(v) == v.type = "list"

\* the padded cost matrix of similarity_authors_hungarian
CostMatrix(sm, n, m) ==
    LET N == Max(n, m)
    IN [i \in 1..N |-> [j \in 1..N |->
          IF i <= n /\ j <= m THEN FSub(FOne, sm[i][j]) ELSE FOne]]

\* the first lines of similarity_authors_hungarian: len() of a value that has
\* none raises TypeError; then the early returns; Pending when none applies
HungarianEarlyReturn(l1, l2) ==
    IF ~HasLen(l1) \/ ~HasLen(l2) THEN Raised("TypeError")
    ELSE IF Len(l1.items) = 0 /\ Len(l2.items) = 0 THEN Returned(FOne)
    ELSE IF Len(l1.items) = 0 \/ Len(l2.items) = 0 THEN Returned(FZero)
    ELSE Pending

\* similarity_authors_hungarian up to the call of hungarian_min_cost
HungarianCall ==
    /\ pc = "sah_call"
    /\ IF HungarianEarlyReturn(lst1, lst2) # Pending
       THEN /\ hung_result' = HungarianEarlyReturn(lst1, lst2)
            /\ pc' = "done"
            /\ UNCHANGED <<sim, cost>>
       ELSE /\ sim' = SimMatrix(lst1.items, lst2.items)
            /\ cost' = CostMatrix(sim', Len(lst1.items), Len(lst2.items))
            /\ pc' = "h_init"
            /\ UNCHANGED hung_result
    /\ UNCHANGED <<lst1, lst2, greedyVars, hungVars, titleVars, callVars, threadVars, scriptVars>>

\* total_sim over the assignment, pairs of two real indices only
RECURSIVE TotalSim(_, _, _, _, _)
TotalSim(asg, k, sm, n, m) ==
    IF k = 0 THEN FZero
    ELSE LET t == TotalSim(asg, k - 1, sm, n, m)
             i == asg[k][1]
             j == asg[k][2]
         IN IF i <= n /\ j <= m THEN FAdd(t, sm[i][j]) ELSE t

\* similarity_authors_hungarian after hungarian_min_cost returned
HungarianReturn ==
    /\ pc = "h_return"
    /\ LET n == Len(lst1.items)
           m == Len(lst2.items)
       IN hung_result' = Returned(FDiv(TotalSim(assignment, Len(assignment), sim, n, m),
                                       Max(n, m)))
    /\ pc' = "done"
    /\ UNCHANGED <<lst1, lst2, greedyVars, sim, cost, hungVars, titleVars, callVars, threadVars, scriptVars>>

\* ---------------------------------------------------------------- titles
TitlesCall ==
    /\ pc = "st_call"
    /\ titles_result' = Returned(similarity_titles(s1, s2))
    /\ pc' = "done"
    /\ UNCHANGED <<lst1, lst2, greedyVars, sim, cost, hungVars, hung_result, s1, s2, callVars, threadVars, scriptVars>>

\* ---------------------------------------------------------------- single calls
\* A caller makes the calls of args one after the other and keeps what each
\* left in ret; the call under way is the first one without a result.
CurrentCall == args[Len(ret) + 1]

\* where the caller stands once the call under way has returned
AfterCall == IF Len(ret) + 1 < Len(args) THEN "call" ELSE "done"

\* author_similarity(a, b)
AuthorCall ==
    /\ pc = "call"
    /\ CurrentCall.fn = "author_similarity"
    /\ ret' = Append(ret, Returned(author_similarity(CurrentCall.a, CurrentCall.b)))
    /\ pc' = AfterCall
    /\ UNCHANGED <<lst1, lst2, greedyVars, sim, cost, hungVars, hung_result, titleVars, args, threadVars, scriptVars>>

\* _tokens_fast(s)
TokensCall ==
    /\ pc = "call"
    /\ CurrentCall.fn = "_tokens_fast"
    /\ ret' = Append(ret, Returned(_tokens_fast(CurrentCall.a)))
    /\ pc' = AfterCall
    /\ UNCHANGED <<lst1, lst2, greedyVars, sim, cost, hungVars, hung_result, titleVars, args, threadVars, scriptVars>>

\* the caller enters similarity_titles(a, b)
TitlesStart ==
    /\ pc = "call"
    /\ CurrentCall.fn = "similarity_titles"
    /\ s1' = CurrentCall.a
    /\ s2' = CurrentCall.b
    /\ pc' = "st_call"
    /\ UNCHANGED <<lst1, lst2, greedyVars, sim, cost, hungVars, hung_result, titles_result,
                   callVars, threadVars, scriptVars>>

\* the caller takes what similarity_titles returned
TitlesEnd ==
    /\ pc = "done"
    /\ Len(ret) < Len(args)
    /\ CurrentCall.fn = "similarity_titles"
    /\ ret' = Append(ret, titles_result)
    /\ pc' = AfterCall
    /\ UNCHANGED <<lst1, lst2, greedyVars, sim, cost, hungVars, hung_result, titleVars, args, threadVars, scriptVars>>

\* similarity_years(a, b)
YearsCall ==
    /\ pc = "call"
    /\ CurrentCall.fn = "similarity_years"
    /\ ret' = Append(ret, similarity_years(CurrentCall.a, CurrentCall.b))
    /\ pc' = AfterCall
    /\ UNCHANGED <<lst1, lst2, greedyVars, sim, cost, hungVars, hung_result, titleVars, args, threadVars, scriptVars>>

\* the caller enters similarity_authors(a, b), and after it
\* similarity_authors_hungarian(a, b)
ListsStart ==
    /\ pc = "call"
    /\ CurrentCall.fn = "list_similarities"
    /\ lst1' = CurrentCall.a
    /\ lst2' = CurrentCall.b
    /\ pc' = "sa_call"
    /\ UNCHANGED <<greedyVars, sim, cost, hungVars, hung_result, titleVars, callVars, threadVars, scriptVars>>

\* the caller takes what the two list similarities left
ListsEnd ==
    /\ pc = "done"
    /\ Len(ret) < Len(args)
    /\ CurrentCall.fn = "list_similarities"
    /\ ret' = Append(ret, <<greedy_result, hung_result>>)
    /\ pc' = AfterCall
    /\ UNCHANGED <<lst1, lst2, greedyVars, sim, cost, hungVars, hung_result, titleVars, args, threadVars, scriptVars>>

\* ---------------------------------------------------------------- specifications
Unset == <<>>

\* no script and no database call running
NoScripts == works_match = Unset /\ authors_match = Unset /\ db = Unset

\* no list or title call under way
InitLocals ==
    /\ sim_matrix = Unset /\ used_b = {} /\ total = FZero /\ row = 0
    /\ greedy_result = Pending
    /\ sim = Unset /\ C = Unset /\ mask = Unset
    /\ row_cover = Unset /\ col_cover = Unset /\ count = 0 /\ assignment = Unset
    /\ last = "none"
    /\ hung_result = Pending
    /\ titles_result = Pending

\* no concurrent calls
NoThreads == heap = Unset /\ frames = Unset

InitIdle == InitLocals /\ args = <<>> /\ ret = <<>> /\ NoThreads /\ NoScripts

\* both list similarities, one after the other, on the same two arguments
Init ==
    /\ pc = "sa_call"
    /\ lst1 \in ListInputs
    /\ lst2 \in ListInputs
    /\ cost = Unset
    /\ s1 = PyNone /\ s2 = PyNone
    /\ InitIdle

Next ==
    \/ GreedyCall \/ GreedyRow \/ GreedyReturn
    \/ HungarianCall \/ HungInit \/ HungAdjust \/ HungPrimeCover \/ HungAugment
    \/ HungExtract \/ HungarianReturn

Spec == Init /\ [][Next]_vars

\* hungarian_min_cost on a cost matrix of its own
InitMatrix ==
    /\ pc = "h_init"
    /\ lst1 = PyNone /\ lst2 = PyNone
    /\ cost \in CostMatrices
    /\ s1 = PyNone /\ s2 = PyNone
    /\ InitIdle

NextMatrix == HungInit \/ HungAdjust \/ HungPrimeCover \/ HungAugment \/ HungExtract

SpecMatrix == InitMatrix /\ [][NextMatrix]_vars

\* similarity_titles on two arguments
InitTitles ==
    /\ pc = "st_call"
    /\ lst1 = PyNone /\ lst2 = PyNone
    /\ cost = Unset
    /\ s1 \in TitleInputs
    /\ s2 \in TitleInputs
    /\ InitIdle

NextTitles == TitlesCall

SpecTitles == InitTitles /\ [][NextTitles]_vars

\* no list, matrix or title argument
InitNoLists ==
    /\ lst1 = PyNone /\ lst2 = PyNone
    /\ cost = Unset
    /\ s1 = PyNone /\ s2 = PyNone
    /\ InitLocals

\* author_similarity on two arguments
InitAuthors ==
    /\ pc = "call"
    /\ args \in {<<Call("author_similarity", a, b)>> : a \in NameInputs, b \in NameInputs}
    /\ ret = <<>>
    /\ InitNoLists
    /\ NoThreads
    /\ NoScripts

NextAuthors == AuthorCall

SpecAuthors == InitAuthors /\ [][NextAuthors]_vars

\* author_similarity on a name and on the same name behind an honorific
InitHonorific ==
    /\ pc = "call"
    /\ args \in {<<Call("author_similarity", a, b),
                   Call("author_similarity", Prefixed(h, a), b)>> :
                     h \in STOPWORDS, a \in NameStrings, b \in AuthorNames}
    /\ ret = <<>>
    /\ InitNoLists
    /\ NoThreads
    /\ NoScripts

NextHonorific == AuthorCall

SpecHonorific == InitHonorific /\ [][NextHonorific]_vars

\* _tokens_fast on a title and on the title with a stopword appended, then
\* similarity_titles on the two
InitStopword ==
    /\ pc = "call"
    /\ args \in {<<Call("_tokens_fast", t, PyNone),
                   Call("_tokens_fast", Appended(t, w), PyNone),
                   Call("similarity_titles", Appended(t, w), t)>> :
                     t \in StemTitles, w \in IT_STOP}
    /\ ret = <<>>
    /\ InitNoLists
    /\ NoThreads
    /\ NoScripts

NextStopword == TokensCall \/ TitlesStart \/ TitlesCall \/ TitlesEnd

SpecStopword == InitStopword /\ [][NextStopword]_vars

\* similarity_years on two integer years, on the same two the other way
\* round, and on the first with the second one year further away
InitYears ==
    /\ pc = "call"
    /\ args \in {<<Call("similarity_years", PyInt(y1), PyInt(y2)),
                   Call("similarity_years", PyInt(y2), PyInt(y1)),
                   Call("similarity_years", PyInt(y1), PyInt(OneFurther(y1, y2)))>> :
                     y1 \in Years, y2 \in Years}
    /\ ret = <<>>
    /\ InitNoLists
    /\ NoThreads
    /\ NoScripts

NextYears == YearsCall

SpecYears == InitYears /\ [][NextYears]_vars

\* similarity_years on two arguments of any kind
InitYearsAny ==
    /\ pc = "call"
    /\ args \in {<<Call("similarity_years", a, b)>> : a \in YearInputs, b \in YearInputs}
    /\ ret = <<>>
    /\ InitNoLists
    /\ NoThreads
    /\ NoScripts

NextYearsAny == YearsCall

SpecYearsAny == InitYearsAny /\ [][NextYearsAny]_vars

\* both list similarities on lists that hold None and non-strings
InitMixed ==
    /\ pc = "sa_call"
    /\ lst1 \in MixedListInputs
    /\ lst2 \in MixedListInputs
    /\ cost = Unset
    /\ s1 = PyNone /\ s2 = PyNone
    /\ InitIdle

NextMixed ==
    \/ GreedyCall \/ GreedyRow \/ GreedyReturn
    \/ HungarianCall \/ HungInit \/ HungAdjust \/ HungPrimeCover \/ HungAugment
    \/ HungExtract \/ HungarianReturn

SpecMixed == InitMixed /\ [][NextMixed]_vars

\* a session: a call, any other call, and the first call again
InitSession ==
    /\ pc = "call"
    /\ args \in {<<x, y, x>> : x \in SessionCalls, y \in SessionCalls}
    /\ ret = <<>>
    /\ InitNoLists
    /\ NoThreads
    /\ NoScripts

NextSession ==
    \/ AuthorCall \/ YearsCall
    \/ TitlesStart \/ TitlesCall \/ TitlesEnd
    \/ ListsStart \/ ListsEnd
    \/ GreedyCall \/ GreedyRow \/ GreedyReturn
    \/ HungarianCall \/ HungInit \/ HungAdjust \/ HungPrimeCover \/ HungAugment
    \/ HungExtract \/ HungarianReturn

SpecSession == InitSession /\ [][NextSession]_vars

\* the list similarities on two lists of authors, then on the same two lists
\* each in another order, or exchanged
InitReordered ==
    /\ pc = "call"
    /\ \E l1 \in AuthorLists, l2 \in AuthorLists :
          \/ \E r1 \in Reorderings(l1), r2 \in Reorderings(l2) :
                args = <<Call("list_similarities", PyList(l1), PyList(l2)),
                         Call("list_similarities", PyList(r1), PyList(r2))>>
          \/ args = <<Call("list_similarities", PyList(l1), PyList(l2)),
                      Call("list_similarities", PyList(l2), PyList(l1))>>
    /\ ret = <<>>
    /\ InitNoLists
    /\ NoThreads
    /\ NoScripts

NextReordered ==
    \/ ListsStart \/ ListsEnd
    \/ GreedyCall \/ GreedyRow \/ GreedyReturn
    \/ HungarianCall \/ HungInit \/ HungAdjust \/ HungPrimeCover \/ HungAugment
    \/ HungExtract \/ HungarianReturn

SpecReordered == InitReordered /\ [][NextReordered]_vars

\* author_similarity on two arguments, and on the same two the other way round
InitSymmetric ==
    /\ pc = "call"
    /\ args \in {<<Call("author_similarity", a, b), Call("author_similarity", b, a)>> :
                    a \in NameInputs, b \in NameInputs}
    /\ ret = <<>>
    /\ InitNoLists
    /\ NoThreads
    /\ NoScripts

NextSymmetric == AuthorCall

SpecSymmetric == InitSymmetric /\ [][NextSymmetric]_vars

\* ---------------------------------------------------------------- threads
\* two threads, each in a call of hungarian_min_cost
Threads == {1, 2}

\* the identities of the list objects: the arguments belong to the caller
\* (owner 0), the objects a call creates belong to the thread making it
Refs == (0 .. 2) \X {"arg1", "arg2", "C", "mask", "row_cover", "col_cover"}

\* faulty variant: the working objects are module-level, one for all calls
AllocShared(t, name) == <<0, name>>

\* a list built inside a call is a new object of the calling thread
Alloc(t, name) == <<t, name>>

\* the cost matrices of the concurrent calls: all 2x2, and the 3x3 with a row
\* of zeros and two equal rows
ThreadMatrices ==
    {m \in CostMatrices : Len(m) = 2 \/ (Len(m) = 3 /\ m[1] = <<FZero, FZero, FZero>> /\ m[2] = m[3])}

\* another thread is inside its call
Overlap(t) == \E u \in Threads \ {t} : frames[u].pc \notin {"t_call", "t_done"}

ThreadFrame ==
    <<lst1, lst2, greedyVars, sim, cost, hungVars, hung_result, titleVars, pc, scriptVars>>

\* N = len(cost); C = [row[:] for row in cost]
ThreadCopy(t) ==
    /\ frames[t].pc = "t_call"
    /\ LET c == Alloc(t, "C")
       IN /\ heap' = [heap EXCEPT ![c] = heap[frames[t].cost]]
          /\ frames' = [frames EXCEPT ![t].pc = "t_reduce", ![t].C = c,
                                      ![t].N = Len(heap[frames[t].cost]),
                                      ![t].overlapped = @ \/ Overlap(t)]
    /\ UNCHANGED <<ThreadFrame, callVars>>

\* the reductions of C in place, the new mask and covers, the initial stars and
\* the first cover_star_columns
ThreadReduce(t) ==
    /\ frames[t].pc = "t_reduce"
    /\ LET f == frames[t]
           R == ColReduce(RowReduce(heap[f.C]))
           mk == InitialStars(R)
           cc == cover_star_columns(mk, AllFalse(f.N))
       IN /\ heap' = [heap EXCEPT ![f.C] = R,
                                  ![Alloc(t, "mask")] = mk,
                                  ![Alloc(t, "row_cover")] = AllFalse(f.N),
                                  ![Alloc(t, "col_cover")] = cc]
          /\ frames' = [frames EXCEPT ![t].pc = "t_loop",
                                      ![t].mask = Alloc(t, "mask"),
                                      ![t].row_cover = Alloc(t, "row_cover"),
                                      ![t].col_cover = Alloc(t, "col_cover"),
                                      ![t].count = CoveredCount(cc),
                                      ![t].overlapped = @ \/ Overlap(t)]
    /\ UNCHANGED <<ThreadFrame, callVars>>

\* one pass of "while z_r is None" in thread t
ThreadAdjust(t) ==
    /\ frames[t].pc = "t_loop"
    /\ LET f == frames[t]
       IN /\ f.count < f.N
          /\ find_a_zero(heap[f.C], heap[f.row_cover], heap[f.col_cover]) = <<0, 0>>
          /\ heap' = [heap EXCEPT ![f.C] = AdjustMatrix(heap[f.C], heap[f.row_cover],
                                                        heap[f.col_cover])]
          /\ frames' = [frames EXCEPT ![t].overlapped = @ \/ Overlap(t)]
    /\ UNCHANGED <<ThreadFrame, callVars>>

\* thread t primes the uncovered zero, covers its row, uncovers the star's column
ThreadPrimeCover(t) ==
    /\ frames[t].pc = "t_loop"
    /\ LET f == frames[t]
           z == find_a_zero(heap[f.C], heap[f.row_cover], heap[f.col_cover])
           star_col == find_star_in_row(heap[f.mask], z[1])
       IN /\ f.count < f.N
          /\ z # <<0, 0>>
          /\ star_col # 0
          /\ heap' = [heap EXCEPT ![f.mask][z[1]][z[2]] = 2,
                                  ![f.row_cover][z[1]] = TRUE,
                                  ![f.col_cover][star_col] = FALSE]
          /\ frames' = [frames EXCEPT ![t].overlapped = @ \/ Overlap(t)]
    /\ UNCHANGED <<ThreadFrame, callVars>>

\* thread t primes the uncovered zero and augments along the path; the covers
\* are new lists
ThreadAugment(t) ==
    /\ frames[t].pc = "t_loop"
    /\ LET f == frames[t]
           z == find_a_zero(heap[f.C], heap[f.row_cover], heap[f.col_cover])
           primed == [heap[f.mask] EXCEPT ![z[1]][z[2]] = 2]
           path == BuildPath(primed, z[2], << z >>)
           mk == clear_primes(augment_path(primed, path, 1))
           cc == cover_star_columns(mk, AllFalse(f.N))
       IN /\ f.count < f.N
          /\ z # <<0, 0>>
          /\ find_star_in_row(heap[f.mask], z[1]) = 0
          /\ IF PathBroken(path)
             THEN /\ heap' = [heap EXCEPT ![f.mask] = primed]
                  /\ frames' = [frames EXCEPT ![t].pc = "t_done",
                                              ![t].overlapped = @ \/ Overlap(t)]
                  /\ ret' = [ret EXCEPT ![t] = Raised("TypeError")]
             ELSE /\ heap' = [heap EXCEPT ![f.mask] = mk,
                                          ![Alloc(t, "row_cover")] = AllFalse(f.N),
                                          ![Alloc(t, "col_cover")] = cc]
                  /\ frames' = [frames EXCEPT ![t].row_cover = Alloc(t, "row_cover"),
                                              ![t].col_cover = Alloc(t, "col_cover"),
                                              ![t].count = CoveredCount(cc),
                                              ![t].overlapped = @ \/ Overlap(t)]
                  /\ UNCHANGED ret
    /\ UNCHANGED <<ThreadFrame, args>>

\* thread t extracts the assignment from its mask and returns it
ThreadExtract(t) ==
    /\ frames[t].pc = "t_loop"
    /\ frames[t].count >= frames[t].N
    /\ ret' = [ret EXCEPT ![t] = Computed(ExtractAssignment(heap[frames[t].mask], 1))]
    /\ frames' = [frames EXCEPT ![t].pc = "t_done", ![t].overlapped = @ \/ Overlap(t)]
    /\ UNCHANGED <<ThreadFrame, args, heap>>

\* two calls of hungarian_min_cost under way at once: on two matrix objects,
\* or both on the same one
InitThreads ==
    /\ pc = "done"
    /\ lst1 = PyNone /\ lst2 = PyNone
    /\ cost = Unset
    /\ s1 = PyNone /\ s2 = PyNone
    /\ InitLocals
    /\ NoScripts
    /\ \E m1 \in ThreadMatrices, m2 \in ThreadMatrices, shared \in BOOLEAN :
          /\ shared => m1 = m2
          /\ args = <<Call("hungarian_min_cost", <<0, "arg1">>, m1),
                      Call("hungarian_min_cost",
                           IF shared THEN <<0, "arg1">> ELSE <<0, "arg2">>, m2)>>
          /\ heap = [r \in Refs |-> IF r = <<0, "arg1">> THEN m1
                                    ELSE IF r = <<0, "arg2">> /\ ~shared THEN m2
                                    ELSE Unset]
    /\ ret = [t \in Threads |-> Pending]
    /\ frames = [t \in Threads |->
                   [pc |-> "t_call", cost |-> args[t].a, N |-> 0, C |-> Unset,
                    mask |-> Unset, row_cover |-> Unset, col_cover |-> Unset,
                    count |-> 0, overlapped |-> FALSE]]

NextThreads ==
    \E t \in Threads :
        \/ ThreadCopy(t) \/ ThreadReduce(t) \/ ThreadAdjust(t) \/ ThreadPrimeCover(t)
        \/ ThreadAugment(t) \/ ThreadExtract(t)

SpecThreads == InitThreads /\ [][NextThreads]_vars

\* ---------------------------------------------------------------- works_match
\* most works read from the database, most results of one OpenAlex response
MaxWorks == 2

MaxResults == 3

PRINT_STATS == TRUE

TitleFull == PyStr(<<"T","a"," ","a","a">>)

TitleHalf == PyStr(<<"T","a">>)

\* str.split(sep) from position i on
RECURSIVE SplitAt(_, _, _, _)
SplitAt(cs, sep, i, cur) ==
    IF i > Len(cs) THEN <<cur>>
    ELSE IF cs[i] = sep THEN <<cur>> \o SplitAt(cs, sep, i + 1, <<>>)
         ELSE SplitAt(cs, sep, i + 1, Append(cur, cs[i]))

\* parse_author_pairs: "surname, name; ..." to the list of "name surname";
\* a value without split() raises AttributeError
RECURSIVE FormatPairs(_, _)
FormatPairs(parts, i) ==
    IF i > Len(parts) THEN <<>>
    ELSE LET p == Strip(parts[i])
             pair == SplitAt(p, ",", 1, <<>>)
             cognome == pair[1]
             nome == SubSeq(p, Len(cognome) + 2, Len(p))
         IN IF p = <<>> THEN FormatPairs(parts, i + 1)
            ELSE IF Len(pair) > 1
                 THEN <<PyStr(Strip(nome) \o <<" ">> \o Strip(cognome))>>
                          \o FormatPairs(parts, i + 1)
                 ELSE <<PyStr(p \o <<" ">>)>> \o FormatPairs(parts, i + 1)

parse_author_pairs(stringa_autori) ==
    IF ~IsStr(stringa_autori) THEN Raised("AttributeError")
    ELSE Computed(PyList(FormatPairs(SplitAt(stringa_autori.chars, ";", 1, <<>>), 1)))

\* the rows of the IRIS query: a work with a DOI, one without, and one whose
\* STRINGA_AUTORI is null
Items ==
    {[TITOLO |-> TitleFull, ANNO |-> PyInt(FirstYear), CD_DOI |-> d,
      STRINGA_AUTORI |-> NameWuLi] : d \in {PyNone, PyStr(<<"1","0">>)}}
    \cup {[TITOLO |-> TitleFull, ANNO |-> PyInt(FirstYear), CD_DOI |-> PyNone,
           STRINGA_AUTORI |-> PyNone]}

\* the works OpenAlex answers with: display_name, the display names of the
\* authorships, publication_year
Works ==
    {[display_name |-> TitleFull, authors_OA |-> PyList(<<NameLiWu>>),
      publication_year |-> PyInt(FirstYear)],
     [display_name |-> TitleHalf, authors_OA |-> PyList(<<NameLWu>>),
      publication_year |-> PyInt(FirstYear + 3)],
     [display_name |-> PyNone, authors_OA |-> PyList(<<>>), publication_year |-> PyNone]}

\* what requests.get gives: a response with a status and, for 200, the results
\* (meta.count is their number), or an exception
Responses ==
    {[status_code |-> 200, results |-> [i \in DOMAIN r |-> [id |-> i, work |-> r[i]]]] :
        r \in SeqsUpTo(Works, MaxResults)}
    \cup {[status_code |-> 500, results |-> <<>>], Raised("ConnectionError")}

\* response.status_code == 200 and meta.count >= 1
Found(response) == response.status_code = 200 /\ Len(response.results) >= 1

\* titles_similarity*0.5 + authors_similarity*0.25 + years_similarity*0.25 for
\* one work of the response (x * 0.5 and x * 0.25 are the exact x / 2 and
\* x / 4); the exception when a similarity raises
similarity_score(titolo, authors, anno, work) ==
    LET titles_similarity == similarity_titles(titolo, work.display_name)
        authors_similarity == similarity_authors(authors, work.authors_OA)
        years_similarity == similarity_years(anno, work.publication_year)
    IN IF years_similarity.kind = "raise" THEN years_similarity
       ELSE Computed(FAdd(FAdd(FDiv(titles_similarity, 2), FDiv(authors_similarity, 4)),
                          FDiv(years_similarity.val, 4)))

\* the scores of the works of Works against the rows of data:
\* <<titolo, authors, anno, work, similarity_score>>
ScoreTable(data) ==
    {<<i.TITOLO, parse_author_pairs(i.STRINGA_AUTORI).val, i.ANNO, work,
       similarity_score(i.TITOLO, parse_author_pairs(i.STRINGA_AUTORI).val, i.ANNO, work)>> :
          i \in {j \in SeqRange(data) : IsStr(j.STRINGA_AUTORI)}, work \in Works}

\* similarity_score, looked up in the scores worked out when the run began
Score(titolo, authors, anno, work) ==
    (CHOOSE e \in works_match.scores :
        <<e[1], e[2], e[3], e[4]>> = <<titolo, authors, anno, work>>)[5]

\* the searches in the order the script tries them; the names are the values
\* of search_method
Attempts ==
    <<"DOI", "title_institution_year_filter", "title_institution_year_general", "title_only">>

\* faulty variant: the general search with institution and year is left out
NextAttemptNoGeneral(search) ==
    IF search = "DOI" THEN "title_institution_year_filter" ELSE "title_only"

\* the search that follows a search without a result
NextAttempt(search) ==
    Attempts[1 + CHOOSE i \in 1..3 : Attempts[i] = search]

\* work_stats as it is initialised for a work; search_method is a str, and the
\* word None while it is None
NewWorkStats ==
    [matched |-> FALSE, match_found |-> FALSE, similarity_score |-> PyNone,
     openalex_id |-> PyNone, search_method |-> "None"]

\* the next row of data: its fields, its authors, a new work_stats
WorkBegin ==
    /\ works_match.pc = "loop"
    /\ works_match.count < Len(works_match.data)
    /\ LET item == works_match.data[works_match.count + 1]
           authors == parse_author_pairs(item.STRINGA_AUTORI)
       IN works_match' =
            IF authors.kind = "raise"
            THEN [works_match EXCEPT !.pc = "traceback", !.count = @ + 1]
            ELSE [works_match EXCEPT
                    !.pc = IF item.CD_DOI # PyNone /\ item.CD_DOI.chars # <<>>
                           THEN "DOI" ELSE "title_institution_year_filter",
                    !.count = @ + 1,
                    !.authors = authors.val,
                    !.work_stats = NewWorkStats,
                    !.work_results = <<>>,
                    !.issued = <<>>]
    /\ UNCHANGED <<coreVars, authors_match, db>>

\* a request as OpenAlex sees it, with the status and meta.count it answered
Sent(search, response) ==
    [search |-> search,
     status_code |-> IF response = Raised("ConnectionError") THEN 0 ELSE response.status_code,
     count |-> IF response = Raised("ConnectionError") THEN 0 ELSE Len(response.results)]

\* one requests.get and what the script makes of the response.  The "elif" of
\* the third title search belongs to the "if" that tests the third response,
\* so it is reached only with a result and never taken: a third search
\* without a result sets nothing and goes on with an empty work_results.
WorksSearch ==
    /\ works_match.pc \in SeqRange(Attempts)
    /\ \E response \in Responses :
          LET search == works_match.pc
              sent == [works_match EXCEPT
                         !.issued =
                             Append(@, Sent(search, response))]
          IN works_match' =
               IF response = Raised("ConnectionError")
               THEN [sent EXCEPT !.pc = "exit"]
               ELSE IF Found(response)
               THEN [sent EXCEPT !.pc = "process",
                                 !.work_results = response.results,
                                 !.work_stats.search_method =
                                     IF PRINT_STATS THEN search ELSE @]
               ELSE IF search = "title_only" THEN [sent EXCEPT !.pc = "process"]
               ELSE [sent EXCEPT !.pc = NextAttempt(search)]
    /\ UNCHANGED <<coreVars, authors_match, db>>

\* the entry of a work that was matched with a score
Matched(work_stats, score, id) ==
    [work_stats EXCEPT !.matched = TRUE, !.match_found = TRUE,
                       !.similarity_score = score, !.openalex_id = id]

\* stats_data.append(work_stats) when PRINT_STATS is set
Appended_stats(stats_data, work_stats) ==
    IF PRINT_STATS THEN Append(stats_data, work_stats) ELSE stats_data

\* faulty variant: a work without results leaves no entry
WorksProcessNoEntry ==
    /\ works_match.pc = "process"
    /\ LET n == Len(works_match.work_results)
           item == works_match.data[works_match.count]
           score == Score(item.TITOLO, works_match.authors, item.ANNO,
                          works_match.work_results[1].work)
       IN works_match' =
            IF n = 0
            THEN [works_match EXCEPT !.pc = "loop"]
            ELSE IF n > 1
            THEN [works_match EXCEPT !.pc = "evaluate", !.results_count = 0,
                                     !.best_score = PyInt(-1), !.best_OA_ID = PyNone]
            ELSE IF score.kind = "raise" THEN [works_match EXCEPT !.pc = "exit"]
            ELSE [works_match EXCEPT
                    !.pc = "loop",
                    !.stats_data = Appended_stats(@, Matched(works_match.work_stats, score,
                                       PyInt(works_match.work_results[1].id)))]
    /\ UNCHANGED <<coreVars, authors_match, db>>

\* the results are there: none (an entry without a match), several (the
\* evaluation starts) or one (scored and recorded)
WorksProcess ==
    /\ works_match.pc = "process"
    /\ LET n == Len(works_match.work_results)
           item == works_match.data[works_match.count]
           score == Score(item.TITOLO, works_match.authors, item.ANNO,
                          works_match.work_results[1].work)
       IN works_match' =
            IF n = 0
            THEN [works_match EXCEPT
                    !.pc = "loop",
                    !.stats_data = Appended_stats(@, works_match.work_stats)]
            ELSE IF n > 1
            THEN [works_match EXCEPT !.pc = "evaluate", !.results_count = 0,
                                     !.best_score = PyInt(-1), !.best_OA_ID = PyNone]
            ELSE IF score.kind = "raise" THEN [works_match EXCEPT !.pc = "exit"]
            ELSE [works_match EXCEPT
                    !.pc = "loop",
                    !.stats_data = Appended_stats(@, Matched(works_match.work_stats, score,
                                       PyInt(works_match.work_results[1].id)))]
    /\ UNCHANGED <<coreVars, authors_match, db>>

\* faulty variant: a score equal to the best so far replaces it
BetterOrEqual(score, best_score) ==
    best_score = PyInt(-1) \/ FLe(best_score.val, score.val)

\* similarity_score > best_score; best_score is -1 before the first work and
\* no score is negative
Better(score, best_score) ==
    best_score = PyInt(-1) \/ FLt(best_score.val, score.val)

\* one pass of "for work in work_results"
WorksEvaluate ==
    /\ works_match.pc = "evaluate"
    /\ works_match.results_count < Len(works_match.work_results)
    /\ LET result == works_match.work_results[works_match.results_count + 1]
           item == works_match.data[works_match.count]
           score == Score(item.TITOLO, works_match.authors, item.ANNO, result.work)
       IN works_match' =
            IF score.kind = "raise"
            THEN [works_match EXCEPT !.pc = "exit", !.results_count = @ + 1]
            ELSE IF Better(score, works_match.best_score)
            THEN [works_match EXCEPT !.results_count = @ + 1, !.best_score = score,
                                     !.best_OA_ID = PyInt(result.id)]
            ELSE [works_match EXCEPT !.results_count = @ + 1]
    /\ UNCHANGED <<coreVars, authors_match, db>>

\* after the loop: the best match is recorded
WorksSelect ==
    /\ works_match.pc = "evaluate"
    /\ works_match.results_count = Len(works_match.work_results)
    /\ works_match' =
         [works_match EXCEPT
            !.pc = "loop",
            !.stats_data = Appended_stats(@, Matched(works_match.work_stats,
                               works_match.best_score, works_match.best_OA_ID))]
    /\ UNCHANGED <<coreVars, authors_match, db>>

\* calculate_statistics: total_works, matched, match_found, unmatched
calculate_statistics(data) ==
    [total_works |-> Len(data),
     matched |-> Cardinality({k \in DOMAIN data : data[k].matched = TRUE}),
     match_found |-> Cardinality({k \in DOMAIN data : data[k].match_found = TRUE}),
     unmatched |-> Cardinality({k \in DOMAIN data : data[k].match_found = FALSE})]

\* every row is processed: the statistics are calculated
WorksStatistics ==
    /\ works_match.pc = "loop"
    /\ works_match.count = Len(works_match.data)
    /\ works_match' =
         [works_match EXCEPT
            !.pc = "end",
            !.stats = IF PRINT_STATS THEN calculate_statistics(works_match.stats_data) ELSE @]
    /\ UNCHANGED <<coreVars, authors_match, db>>

\* works_match.py from the first row on
InitWorks ==
    /\ pc = "done"
    /\ args = <<>> /\ ret = <<>>
    /\ InitNoLists
    /\ NoThreads
    /\ authors_match = Unset /\ db = Unset
    /\ \E data \in SeqsUpTo(Items, MaxWorks) :
          works_match =
             [pc |-> "loop", data |-> data, count |-> 0, authors |-> PyNone,
              work_stats |-> NewWorkStats, work_results |-> <<>>, results_count |-> 0,
              best_score |-> PyInt(-1), best_OA_ID |-> PyNone, stats_data |-> <<>>,
              stats |-> PyNone, issued |-> <<>>, scores |-> ScoreTable(data)]

NextWorks ==
    \/ WorkBegin \/ WorksSearch \/ WorksProcess \/ WorksEvaluate \/ WorksSelect
    \/ WorksStatistics

SpecWorks == InitWorks /\ [][NextWorks]_vars

\* ---------------------------------------------------------------- authors_match
\* the most rows of authors a run reads
MaxAuthors == 2

\* the most publications with a DOI the database returns for an author
MaxDois == 2

\* the truth value Python gives None, an empty str and 0
Falsy(v) == v = PyNone \/ (IsStr(v) /\ v.chars = <<>>) \/ v = PyInt(0)

\* the rows of pub_ri_prodotti_autori: with and without ORCID, and without a name
IrisAuthors ==
    {[matricola |-> PyInt(1), NOME_AUTORE |-> PyStr(<<"L","i">>),
      COGNOME_AUTORE |-> PyStr(<<"W","u">>), ORCID |-> PyStr(<<"0">>)],
     [matricola |-> PyInt(2), NOME_AUTORE |-> PyStr(<<"L","i">>),
      COGNOME_AUTORE |-> PyStr(<<"W","u">>), ORCID |-> PyNone],
     [matricola |-> PyInt(3), NOME_AUTORE |-> PyNone,
      COGNOME_AUTORE |-> PyStr(<<"W","u">>), ORCID |-> PyNone]}

\* an author as OpenAlex returns it
OAAuthor(display_name, id) == [display_name |-> display_name, id |-> id]

OAId(n) == PyStr(<<"A", n>>)

\* the result pages of an author search: two candidates with an id, one without
AuthorResults ==
    LET c1 == OAAuthor(NameLiWu, OAId("1"))
        c2 == OAAuthor(NameLWu, OAId("2"))
        c0 == OAAuthor(NameLiWu, PyNone)
    IN {<<>>, <<c1>>, <<c0>>, <<c1, c2>>, <<c1, c0, c2>>}

\* what requests.get gives for an author search
AuthorResponses ==
    {[status_code |-> 200, results |-> r] : r \in AuthorResults}
        \cup {[status_code |-> 500, results |-> <<>>], Raised("ConnectionError")}

\* the authorships of the works OpenAlex holds: a candidate behind three
\* others, a candidate alone, two authors that are no candidates, no author,
\* and an authorship without author
Authorships ==
    LET w1 == [author |-> OAAuthor(NameLiWu, OAId("1"))]
        w4 == [author |-> OAAuthor(NameLWu, OAId("4"))]
        w5 == [author |-> OAAuthor(PyStr(<<"W","a"," ","W","u">>), OAId("5"))]
        w6 == [author |-> OAAuthor(PyStr(<<"X","u"," ","L","i">>), OAId("6"))]
        w0 == [author |-> PyNone]
    IN {<<w4, w5, w6, w1>>, <<w1>>, <<w5, w6>>, <<>>, <<w0, w6>>}

\* what requests.get gives for a work
WorkResponses ==
    {[status_code |-> 200, authorships |-> a] : a \in Authorships}
        \cup {[status_code |-> 404, authorships |-> <<>>], Raised("ConnectionError")}

\* the rows the DOI query returns; an empty doi is skipped
DoiRows == SeqsUpTo({[doi |-> PyStr(<<"1","0">>)], [doi |-> PyStr(<<>>)]}, MaxDois)

\* author_stats as it is initialised for an author; search_method is a str,
\* and the word None while it is None
NewAuthorStats(author) ==
    [matricola |-> author.matricola, nome |-> author.NOME_AUTORE,
     cognome |-> author.COGNOME_AUTORE, orcid |-> author.ORCID,
     matches_found |-> 0, search_method |-> "None",
     doi_analysis_performed |-> FALSE, compatible_match_found |-> FALSE,
     similar_match_found |-> FALSE, no_compatible_match |-> FALSE,
     publications_with_doi |-> 0]

\* the next row of authors; a row without matricola, nome or cognome is skipped
AuthorBegin ==
    /\ authors_match.pc = "loop"
    /\ authors_match.main_loop_count < Len(authors_match.authors)
    /\ LET author == authors_match.authors[authors_match.main_loop_count + 1]
       IN authors_match' =
            IF Falsy(author.matricola) \/ Falsy(author.NOME_AUTORE)
                  \/ Falsy(author.COGNOME_AUTORE)
            THEN [authors_match EXCEPT !.main_loop_count = @ + 1]
            ELSE [authors_match EXCEPT
                    !.pc = IF Falsy(author.ORCID) THEN "name_institution" ELSE "ORCID",
                    !.main_loop_count = @ + 1,
                    !.author_stats = NewAuthorStats(author),
                    !.search_successful = FALSE,
                    !.oa_authors = <<>>]
    /\ UNCHANGED <<coreVars, works_match, db>>

\* the (display_name, id) of the results that have both
Candidates(results) ==
    LET Both(m) == ~Falsy(m.id) /\ ~Falsy(m.display_name)
        kept == SelectSeq(results, Both)
    IN [i \in DOMAIN kept |-> <<kept[i].display_name, kept[i].id>>]

\* the script after the searches: no candidate and one candidate end the
\* author, several candidates go on to the DOI query
AfterSearch(am) ==
    IF am.oa_authors = <<>>
    THEN [am EXCEPT !.pc = "loop",
                    !.author_stats.matches_found = 0,
                    !.stats_data = Append(@, [am.author_stats EXCEPT !.matches_found = 0])]
    ELSE IF Len(am.oa_authors) > 1
    THEN [am EXCEPT !.pc = "dois", !.author_stats.matches_found = Len(am.oa_authors)]
    ELSE [am EXCEPT !.pc = "loop",
                    !.author_stats.matches_found = Len(am.oa_authors),
                    !.stats_data = Append(@, [am.author_stats EXCEPT
                                                !.matches_found = Len(am.oa_authors)])]

\* the search by ORCID; meta.count of a response is the length of its results
AuthorSearchORCID ==
    /\ authors_match.pc = "ORCID"
    /\ \E response \in AuthorResponses :
          authors_match' =
             IF response # Raised("ConnectionError") /\ response.status_code = 200
                   /\ Len(response.results) >= 1
             THEN AfterSearch([authors_match EXCEPT
                     !.oa_authors = @ \o Candidates(response.results),
                     !.search_successful = TRUE,
                     !.author_stats.search_method = "ORCID"])
             ELSE [authors_match EXCEPT !.pc = "name_institution"]
    /\ UNCHANGED <<coreVars, works_match, db>>

\* the search by name and institution
AuthorSearchName ==
    /\ authors_match.pc = "name_institution"
    /\ \E response \in AuthorResponses :
          authors_match' =
             IF response # Raised("ConnectionError") /\ response.status_code = 200
             THEN AfterSearch([authors_match EXCEPT
                     !.oa_authors = @ \o Candidates(response.results),
                     !.author_stats.search_method =
                          IF @ = "None" THEN "name_institution" ELSE @])
             ELSE AfterSearch(authors_match)
    /\ UNCHANGED <<coreVars, works_match, db>>

\* the DOI query of an author with several candidates; a query that fails
\* closes cursor and connection and exits
AuthorDois ==
    /\ authors_match.pc = "dois"
    /\ \E result \in {[kind |-> "return", rows |-> d] : d \in DoiRows} \cup {Raised("Error")} :
          authors_match' =
             IF result = Raised("Error")
             THEN [authors_match EXCEPT !.pc = "exit", !.closed = TRUE]
             ELSE IF Len(result.rows) = 0
             THEN [authors_match EXCEPT
                     !.pc = "loop", !.dois = result.rows,
                     !.author_stats.publications_with_doi = 0,
                     !.stats_data = Append(@, [authors_match.author_stats EXCEPT
                                                 !.publications_with_doi = 0])]
             ELSE [authors_match EXCEPT
                     !.pc = "works", !.dois = result.rows,
                     !.author_stats.publications_with_doi = Len(result.rows),
                     !.author_stats.doi_analysis_performed = TRUE,
                     !.counter = <<>>,
                     !.doi_count = 0]
    /\ UNCHANGED <<coreVars, works_match, db>>

\* counter[couple] += 1; a Counter keeps its keys in the order of insertion
Count(counter, couple) ==
    IF \E i \in DOMAIN counter : counter[i].key = couple
    THEN [i \in DOMAIN counter |->
             IF counter[i].key = couple THEN [counter[i] EXCEPT !.n = @ + 1] ELSE counter[i]]
    ELSE Append(counter, [key |-> couple, n |-> 1])

RECURSIVE CountAll(_, _)
\* the authorships of one work counted; an authorship without author, or
\* whose author lacks display_name or id, is passed over
CountAll(counter, authorships) ==
    IF authorships = <<>> THEN counter
    ELSE LET author == Head(authorships).author
         IN IF author = PyNone \/ Falsy(author.display_name) \/ Falsy(author.id)
            THEN CountAll(counter, Tail(authorships))
            ELSE CountAll(Count(counter, <<author.display_name, author.id>>),
                          Tail(authorships))

\* one DOI: the work is fetched and its authors are counted
AuthorWork ==
    /\ authors_match.pc = "works"
    /\ authors_match.doi_count < Len(authors_match.dois)
    /\ LET doi == authors_match.dois[authors_match.doi_count + 1].doi
       IN IF Falsy(doi)
          THEN authors_match' = [authors_match EXCEPT !.doi_count = @ + 1]
          ELSE \E response \in WorkResponses :
                  authors_match' =
                     [authors_match EXCEPT
                        !.doi_count = @ + 1,
                        !.counter =
                            IF response # Raised("ConnectionError")
                                  /\ response.status_code = 200
                            THEN CountAll(@, response.authorships) ELSE @]
    /\ UNCHANGED <<coreVars, works_match, db>>

RECURSIVE most_common(_)
\* Counter.most_common(): by count, the highest first, equal counts in the
\* order of insertion
most_common(counter) ==
    IF counter = <<>> THEN <<>>
    ELSE LET i == CHOOSE k \in DOMAIN counter :
                     /\ \A j \in DOMAIN counter : counter[j].n <= counter[k].n
                     /\ \A j \in 1..(k - 1) : counter[j].n < counter[k].n
         IN <<counter[i]>>
               \o most_common([j \in 1..(Len(counter) - 1) |->
                                 IF j < i THEN counter[j] ELSE counter[j + 1]])

\* Counter.most_common(3)
Top3(counter) ==
    LET all == most_common(counter)
    IN SubSeq(all, 1, IF Len(all) < 3 THEN Len(all) ELSE 3)

\* f"{nome} {cognome}"
iris_full_name(stats) == PyStr(stats.nome.chars \o <<" ">> \o stats.cognome.chars)

\* faulty variant: a similarity of 0.7 is accepted too
SimilarOrEqual(score_similarity) == FLe(F07, score_similarity)

\* score_similarity > 0.7
Similar(score_similarity) == FLt(F07, score_similarity)

\* the first pass: one of the three most frequent work authors is a candidate
Compatible(counter, candidates) ==
    \E i \in DOMAIN Top3(counter) : \E j \in DOMAIN candidates :
        Top3(counter)[i].key[2] = candidates[j][2]

\* the second pass: a work author whose name is similar to the IRIS name
SimilarName(counter, stats) ==
    \E i \in DOMAIN counter :
        Similar(author_similarity(counter[i].key[1], iris_full_name(stats)))

\* every DOI is done: the two passes over the counted authors, and the entry
AuthorAnalyse ==
    /\ authors_match.pc = "works"
    /\ authors_match.doi_count = Len(authors_match.dois)
    /\ LET am == authors_match
           flag == Compatible(am.counter, am.oa_authors)
           last_flag == ~flag /\ SimilarName(am.counter, am.author_stats)
           author_stats ==
               IF am.counter = <<>> THEN am.author_stats
               ELSE [am.author_stats EXCEPT
                       !.compatible_match_found = flag,
                       !.similar_match_found = last_flag,
                       !.no_compatible_match = ~flag /\ ~last_flag]
       IN authors_match' =
            [am EXCEPT !.pc = "loop",
                       !.author_stats = author_stats,
                       !.stats_data = Append(@, author_stats)]
    /\ UNCHANGED <<coreVars, works_match, db>>

\* calculate_statistics of authors_matching: total_authors and the counts of
\* the DOI-based analysis
calculate_author_statistics(data) ==
    LET N(P(_)) == Cardinality({k \in DOMAIN data : P(data[k])})
        WithDoi(a) == a.doi_analysis_performed
        WithCompatible(a) == a.compatible_match_found
        WithSimilar(a) == a.similar_match_found
        WithNone(a) == a.no_compatible_match
    IN [total_authors |-> Len(data),
        authors_with_doi_analysis |-> N(WithDoi),
        authors_with_compatible_match |-> N(WithCompatible),
        authors_with_similar_match |-> N(WithSimilar),
        authors_no_compatible_match |-> N(WithNone)]

\* every row is processed: the statistics, and cursor and connection are closed
AuthorsStatistics ==
    /\ authors_match.pc = "loop"
    /\ authors_match.main_loop_count = Len(authors_match.authors)
    /\ authors_match' =
         [authors_match EXCEPT
            !.pc = "end",
            !.stats = IF authors_match.stats_data # <<>>
                      THEN calculate_author_statistics(authors_match.stats_data) ELSE @,
            !.closed = TRUE]
    /\ UNCHANGED <<coreVars, works_match, db>>

\* authors_match.py from the first row on
InitAuthorsMatch ==
    /\ pc = "done"
    /\ args = <<>> /\ ret = <<>>
    /\ InitNoLists
    /\ NoThreads
    /\ works_match = Unset /\ db = Unset
    /\ \E authors \in SeqsUpTo(IrisAuthors, MaxAuthors) :
          authors_match =
             [pc |-> "loop", authors |-> authors, main_loop_count |-> 0,
              author_stats |-> PyNone, search_successful |-> FALSE, oa_authors |-> <<>>,
              dois |-> <<>>, doi_count |-> 0, counter |-> <<>>, stats_data |-> <<>>,
              stats |-> PyNone, closed |-> FALSE]

NextAuthorsMatch ==
    \/ AuthorBegin \/ AuthorSearchORCID \/ AuthorSearchName \/ AuthorDois
    \/ AuthorWork \/ AuthorAnalyse \/ AuthorsStatistics

SpecAuthorsMatch == InitAuthorsMatch /\ [][NextAuthorsMatch]_vars

\* ---------------------------------------------------------------- db_utils
\* the most calls of the functions of db_utils a run makes
MaxCalls == 3

\* the most parameter tuples of a batch
MaxBatch == 2

\* the functions that open a connection of their own
DbFunctions == {"execute_query", "execute_insert", "execute_insert_many"}

\* the parameters of a call: None or a tuple for a query, a tuple for an
\* insert, a list of tuples for a batch; the number of tuples stands for them
DbParams(fn) ==
    IF fn = "execute_query" THEN {0, 1}
    ELSE IF fn = "execute_insert" THEN {1}
    ELSE 0..MaxBatch

\* test_connection: a connection and a cursor, or exit(1) when the connection
\* or the cursor fails; a cursor that fails leaves the connection open
test_connection(d, outcome) ==
    IF outcome = "connected"
    THEN [d EXCEPT !.pc = "try", !.conn = "open", !.cursor = "open"]
    ELSE IF outcome = "no cursor"
    THEN [d EXCEPT !.pc = "exit", !.conn = "open", !.cursor = "none"]
    ELSE [d EXCEPT !.pc = "exit", !.conn = "none", !.cursor = "none"]

\* a function of db_utils is called and asks test_connection for a connection
DbCall ==
    /\ db.pc = "idle"
    /\ db.calls < MaxCalls
    /\ \E fn \in DbFunctions : \E params \in DbParams(fn) :
       \E outcome \in {"connected", "no cursor", "no connection"} :
          db' = test_connection(
                   [db EXCEPT !.fn = fn, !.params = params, !.events = <<>>,
                              !.statement = "none", !.pending = 0, !.before = db.stored,
                              !.outcome = Pending, !.result = Pending],
                   outcome)
    /\ UNCHANGED <<coreVars, works_match, authors_match>>

\* the try block of execute_query: execute with or without params, fetchall
TryQuery(d, outcome) ==
    LET execute == IF d.params # 0 THEN "execute(query, params)" ELSE "execute(query)"
    IN IF outcome = "ok"
       THEN [d EXCEPT !.pc = "finally", !.statement = "ok",
                      !.events = @ \o <<execute, "fetchall">>,
                      !.outcome = [kind |-> "return", results |-> d.stored]]
       ELSE IF outcome = "fetchall fails"
       THEN [d EXCEPT !.pc = "except", !.statement = "failed",
                      !.events = @ \o <<execute, "fetchall">>]
       ELSE [d EXCEPT !.pc = "except", !.statement = "failed",
                      !.events = @ \o <<execute>>]

\* the try block of execute_insert and execute_insert_many: the statement,
\* commit, rowcount.  A batch that fails has inserted the rows before the one
\* that failed
TryInsert(d, outcome, done) ==
    LET execute == IF d.fn = "execute_insert" THEN "execute(query, params)"
                   ELSE "executemany(query, params_list)"
    IN IF outcome = "ok"
       THEN [d EXCEPT !.pc = "finally", !.statement = "ok",
                      !.events = @ \o <<execute, "commit">>,
                      !.stored = @ + d.params,
                      !.outcome = [kind |-> "return", affected_rows |-> d.params]]
       ELSE IF outcome = "commit fails"
       THEN [d EXCEPT !.pc = "except", !.statement = "ok",
                      !.events = @ \o <<execute, "commit">>,
                      !.pending = d.params]
       ELSE [d EXCEPT !.pc = "except", !.statement = "failed",
                      !.events = @ \o <<execute>>,
                      !.pending = done]

\* the try block, with what the database makes of the statement
DbTry ==
    /\ db.pc = "try"
    /\ IF db.fn = "execute_query"
       THEN \E outcome \in {"ok", "execute fails", "fetchall fails"} :
               db' = TryQuery(db, outcome)
       ELSE \E outcome \in {"ok", "execute fails", "commit fails"} :
            \E done \in 0..(IF db.params = 0 THEN 0 ELSE db.params - 1) :
               db' = TryInsert(db, outcome, done)
    /\ UNCHANGED <<coreVars, works_match, authors_match>>

\* faulty variant: the error is raised without rollback
Except_no_rollback(d, rolled_back) ==
    [d EXCEPT !.pc = "finally", !.outcome = Raised("Error")]

\* except mysql.connector.Error: the inserts roll back, all three raise a
\* mysql.connector.Error; a rollback that fails raises one as well
Except(d, rolled_back) ==
    IF d.fn = "execute_query"
    THEN [d EXCEPT !.pc = "finally", !.outcome = Raised("Error")]
    ELSE [d EXCEPT !.pc = "finally",
                   !.events = Append(@, "rollback"),
                   !.pending = IF rolled_back THEN 0 ELSE @,
                   !.outcome = Raised("Error")]

\* the except block
DbExcept ==
    /\ db.pc = "except"
    /\ \E rolled_back \in BOOLEAN : db' = Except(db, rolled_back)
    /\ UNCHANGED <<coreVars, works_match, authors_match>>

\* faulty variant: the connection is left open
Finally_cursor_only(d) ==
    [d EXCEPT !.pc = "idle", !.calls = @ + 1,
              !.events = @ \o <<"cursor.close">>,
              !.cursor = "closed",
              !.result = d.outcome]

\* finally: cursor.close(), conn.close(), and control leaves the function with
\* the value or the error; rows that are not committed go with the connection
Finally(d) ==
    [d EXCEPT !.pc = "idle", !.calls = @ + 1,
              !.events = @ \o <<"cursor.close", "conn.close">>,
              !.cursor = "closed", !.conn = "closed",
              !.pending = 0,
              !.result = d.outcome]

\* the finally block
DbFinally ==
    /\ db.pc = "finally"
    /\ db' = Finally(db)
    /\ UNCHANGED <<coreVars, works_match, authors_match>>

\* a program that calls the functions of db_utils one after the other
InitDb ==
    /\ pc = "done"
    /\ args = <<>> /\ ret = <<>>
    /\ InitNoLists
    /\ NoThreads
    /\ works_match = Unset /\ authors_match = Unset
    /\ db = [pc |-> "idle", calls |-> 0, fn |-> "none", params |-> 0,
             conn |-> "none", cursor |-> "none", events |-> <<>>, statement |-> "none",
             pending |-> 0, stored |-> 0, before |-> 0,
             outcome |-> Pending, result |-> Pending]

NextDb == DbCall \/ DbTry \/ DbExcept \/ DbFinally

SpecDb == InitDb /\ [][NextDb]_vars

\* ---------------------------------------------------------------- properties
Min(a, b) == IF a <= b THEN a ELSE b

NonEmptyLists ==
    IsList(lst1) /\ IsList(lst2) /\ lst1.items # <<>> /\ lst2.items # <<>>

BothLists == IsList(lst1) /\ IsList(lst2)

\* C1: for two non-empty author lists the result of similarity_authors_hungarian
\* is never below the result of similarity_authors on the same lists.
C1_OptimalAtLeastGreedy ==
    (pc = "done" /\ NonEmptyLists) =>
        /\ hung_result.kind = "return"
        /\ FLe(greedy_result.val, hung_result.val)

\* the one-to-one pairings of the rows with the columns of the padded matrix
Pairings(N) == {p \in [1..N -> 1..N] : \A i, j \in 1..N : p[i] = p[j] => i = j}

\* the sum of the scores of a pairing, rows in order, padding pairs left out
RECURSIVE PairingTotal(_, _, _, _, _)
PairingTotal(p, k, sm, n, m) ==
    IF k = 0 THEN FZero
    ELSE LET t == PairingTotal(p, k - 1, sm, n, m)
         IN IF k <= n /\ p[k] <= m THEN FAdd(t, sm[k][p[k]]) ELSE t

BestPairingTotal(sm, n, m) ==
    LET N == Max(n, m)
        best == CHOOSE p \in Pairings(N) : \A q \in Pairings(N) :
                    FLe(PairingTotal(q, N, sm, n, m), PairingTotal(p, N, sm, n, m))
    IN PairingTotal(best, N, sm, n, m)

\* C2: for non-empty lists similarity_authors_hungarian returns the largest
\* sum of author_similarity over a one-to-one pairing of the two lists, divided
\* by the length of the longer list.
C2_OptimalIsBestPairing ==
    (pc = "done" /\ NonEmptyLists) =>
        LET n == Len(lst1.items)
            m == Len(lst2.items)
        IN hung_result =
             Returned(FDiv(BestPairingTotal(SimMatrix(lst1.items, lst2.items), n, m),
                           Max(n, m)))

\* C3: the assignment hungarian_min_cost returns for an N x N matrix has N
\* pairs, and every row and every column is in exactly one of them.
C3_PerfectMatching ==
    pc = "h_return" =>
        /\ Len(assignment) = Len(cost)
        /\ {assignment[k][1] : k \in DOMAIN assignment} = DOMAIN cost
        /\ {assignment[k][2] : k \in DOMAIN assignment} = DOMAIN cost

\* a 3 x 3 matrix solved after an adjustment, with rows moved off the diagonal
C3_Witness ==
    /\ pc = "h_return"
    /\ Len(cost) = 3
    /\ C # ColReduce(RowReduce(cost))
    /\ \E k \in DOMAIN assignment : assignment[k][1] # assignment[k][2]

StarCount == Cardinality({p \in (DOMAIN mask) \X (DOMAIN mask) : mask[p[1]][p[2]] = 1})

CoveredRows == Cardinality({i \in DOMAIN row_cover : row_cover[i]})

\* a natural number that every step of hungarian_min_cost lowers: the stars
\* still missing weigh most, then the rows still uncovered, then the lack of
\* an uncovered zero
Variant ==
    LET N == Len(cost)
    IN CASE pc = "h_init" -> 2 * N * N + 4 * N + 3
         [] pc = "h_loop" ->
               1 + (N - StarCount) * (2 * N + 2) + (N - CoveredRows) * 2
                 + (IF find_a_zero(C, row_cover, col_cover) = <<0, 0>> THEN 1 ELSE 0)
         [] OTHER -> 0

\* C4: hungarian_min_cost terminates: every matrix adjustment leaves an
\* uncovered zero, so the inner loop ends after it, and every step of the call
\* lowers a natural number, so the outer loop ends; the call can only stop at
\* its return, where all N columns are covered.
C4_Terminates ==
    /\ [](Variant >= 0)
    /\ [][Variant' < Variant]_vars
    /\ [][HungAdjust => find_a_zero(C', row_cover', col_cover') # <<0, 0>>]_vars
    /\ [](pc = "h_return" => count = Len(cost))

\* a call that returned after adjusting its matrix
C4_Witness ==
    /\ pc = "h_return"
    /\ C # ColReduce(RowReduce(cost))

\* C5: when an argument is None or no list, similarity_authors_hungarian
\* returns 0.0 and raises nothing.
C5_MalformedListGivesZero ==
    (pc = "done" /\ ~BothLists) => hung_result = Returned(FZero)

\* C6: similarity_authors returns 0.0 when an argument is None or no list; both
\* list similarities return 1.0 for two empty lists and 0.0 when exactly one
\* list is empty.
C6_DegenerateLists ==
    pc = "done" =>
        /\ ~BothLists => greedy_result = Returned(FZero)
        /\ (BothLists /\ lst1.items = <<>> /\ lst2.items = <<>>) =>
               (greedy_result = Returned(FOne) /\ hung_result = Returned(FOne))
        /\ (BothLists /\ (lst1.items = <<>>) # (lst2.items = <<>>)) =>
               (greedy_result = Returned(FZero) /\ hung_result = Returned(FZero))

\* both calls returned on one empty and one three-name list
C6_Witness ==
    /\ pc = "done"
    /\ BothLists
    /\ lst1.items = <<>>
    /\ Len(lst2.items) = 3
    /\ greedy_result = Returned(FZero)
    /\ hung_result = Returned(FZero)

\* the column the greedy rule gives a row: the best score among the columns
\* still free, the lowest index among equal scores; 0 when none is free
GreedyPick(vals, used) ==
    LET free == {j \in DOMAIN vals : j \notin used}
    IN IF free = {} THEN 0
       ELSE CHOOSE j \in free :
               \A k \in free : FLt(vals[k], vals[j]) \/ (vals[k] = vals[j] /\ j <= k)

\* <<sum, columns taken>> after the rows r .. upto under the greedy rule,
\* starting from the sum t and the taken columns used
RECURSIVE GreedyFrom(_, _, _, _, _)
GreedyFrom(sm, upto, r, t, used) ==
    IF r > upto THEN <<t, used>>
    ELSE IF GreedyPick(sm[r], used) = 0 THEN GreedyFrom(sm, upto, r + 1, t, used)
         ELSE GreedyFrom(sm, upto, r + 1, FAdd(t, sm[r][GreedyPick(sm[r], used)]),
                         used \cup {GreedyPick(sm[r], used)})

GreedyReference(sm, r) == GreedyFrom(sm, r, 1, FZero, {})

\* C7: similarity_authors follows the greedy rule: rows in order, each takes
\* the best free column (lowest index among equals), a row without a free
\* column adds 0, no column is taken twice, and the result is the sum divided
\* by the length of the longer list.
C7_GreedyReference ==
    /\ pc = "sa_loop" =>
           /\ <<total, used_b>> = GreedyReference(sim_matrix, row - 1)
           /\ Cardinality(used_b) = Min(row - 1, Len(lst2.items))
    /\ (pc = "sah_call" /\ NonEmptyLists) =>
           greedy_result =
               Returned(FDiv(GreedyReference(sim_matrix, Len(lst1.items))[1],
                             Max(Len(lst1.items), Len(lst2.items))))
    /\ (pc = "sa_loop" /\ row = 1) => sim_matrix = SimMatrix(lst1.items, lst2.items)

\* three rows over two columns with equal best scores: the last row found no
\* free column
C7_Witness ==
    /\ pc = "sah_call"
    /\ NonEmptyLists
    /\ Len(lst1.items) = 3
    /\ Len(lst2.items) = 2
    /\ sim_matrix[1][1] = sim_matrix[1][2]
    /\ used_b = {1, 2}

\* C8: for list arguments the results of both list similarities lie in [0, 1].
C8_ResultsInUnitInterval ==
    (pc = "done" /\ BothLists) =>
        /\ greedy_result.kind = "return"
        /\ hung_result.kind = "return"
        /\ FLe(FZero, greedy_result.val) /\ FLe(greedy_result.val, FOne)
        /\ FLe(FZero, hung_result.val) /\ FLe(hung_result.val, FOne)

\* lists of different lengths scored strictly between 0 and 1
C8_Witness ==
    /\ pc = "done"
    /\ NonEmptyLists
    /\ Len(lst1.items) < Len(lst2.items)
    /\ FLt(FZero, greedy_result.val) /\ FLt(greedy_result.val, FOne)
    /\ FLt(FZero, hung_result.val) /\ FLt(hung_result.val, FOne)

\* C9: similarity_titles is symmetric in its two arguments, strings or not.
C9_TitlesSymmetric ==
    pc = "done" => titles_result = Returned(similarity_titles(s2, s1))

\* two strings whose token sets overlap in part
C9_Witness ==
    /\ pc = "done"
    /\ titles_result.kind = "return"
    /\ IsStr(s1) /\ IsStr(s2)
    /\ _tokens_fast(s1) # _tokens_fast(s2)
    /\ FLt(FZero, titles_result.val) /\ FLt(titles_result.val, FOne)

\* C10: in similarity_titles the type check comes first: an argument that is
\* None or no string gives 0.0, also when both arguments have no tokens; two
\* strings without tokens give 1.0.
C10_TitlesTypeCheckFirst ==
    pc = "done" =>
        /\ (~IsStr(s1) \/ ~IsStr(s2)) => titles_result = Returned(FZero)
        /\ (IsStr(s1) /\ IsStr(s2) /\ _tokens_fast(s1) = {} /\ _tokens_fast(s2) = {}) =>
               titles_result = Returned(FOne)

\* None against a string without tokens
C10_Witness ==
    /\ pc = "done"
    /\ s1 = PyNone
    /\ IsStr(s2)
    /\ _tokens_fast(s2) = {}
    /\ titles_result = Returned(FZero)

\* the tokens of a title in the order and number they occur in it
TitleTokenList(s) ==
    LET Keep(t) == Len(t) > 1 /\ t \notin IT_STOP
    IN SelectSeq(Split(Strip(SubNonAlnumRuns(Lower(s.chars), 1))), Keep)

\* |A \cap B| / |A \cup B|, the union counted by inclusion and exclusion
JaccardIndex(A, B) ==
    LET common == Cardinality({t \in A : t \in B})
    IN FDiv(FromInt(common), Cardinality(A) + Cardinality(B) - common)

\* C11: for two strings whose token sets are not both empty similarity_titles
\* is the Jaccard index of the sets of their tokens, whatever the order and the
\* number of occurrences of a token; it lies in [0, 1] and is 1.0 when the sets
\* are equal.
C11_TitlesJaccard ==
    (pc = "done" /\ IsStr(s1) /\ IsStr(s2)) =>
        LET A == SeqRange(TitleTokenList(s1))
            B == SeqRange(TitleTokenList(s2))
        IN (A # {} \/ B # {}) =>
              /\ titles_result = Returned(JaccardIndex(A, B))
              /\ FLe(FZero, titles_result.val) /\ FLe(titles_result.val, FOne)
              /\ (A = B) => titles_result = Returned(FOne)

\* a title that repeats its one token against a title that has it once
C11_Witness ==
    /\ pc = "done"
    /\ IsStr(s1) /\ IsStr(s2)
    /\ Len(TitleTokenList(s1)) = 2
    /\ Len(TitleTokenList(s2)) = 1
    /\ titles_result = Returned(FOne)

\* the first letters of the tokens of a name
FirstLetters(toks) == [i \in DOMAIN toks |-> Head(toks[i])]

\* the largest of a non-empty set of floats
FMaxOf(S) == CHOOSE x \in S : \A y \in S : FLe(y, x)

\* the rule table of author_similarity on two token lists
AuthorRuleTable(ta, tb) ==
    IF ta = <<>> \/ tb = <<>> THEN FZero
    ELSE IF ta = tb THEN FOne
    ELSE LET sameLast == ta[Len(ta)] = tb[Len(tb)]
             sameFirstLetter == Head(ta[1]) = Head(tb[1])
         IN FMaxOf({JaccardIndex(SeqRange(ta), SeqRange(tb))}
                   \cup (IF FirstLetters(ta) = FirstLetters(tb) THEN {F06} ELSE {})
                   \cup (IF sameLast /\ sameFirstLetter THEN {F08} ELSE {})
                   \cup (IF sameLast /\ ~sameFirstLetter THEN {F07} ELSE {}))

\* C12: author_similarity is the rule table: 0.0 when a token list is empty,
\* 1.0 when the lists are equal, else the largest of the Jaccard index, 0.6 for
\* equal first letters, 0.8 for equal last tokens with equal first letters of
\* the first tokens and 0.7 for equal last tokens alone; it is never below the
\* Jaccard index and lies in [0, 1].
C12_AuthorRuleTable ==
    pc = "done" =>
        LET ta == normalize_author(args[1].a)
            tb == normalize_author(args[1].b)
        IN /\ ret[1] = Returned(AuthorRuleTable(ta, tb))
           /\ (ta # <<>> /\ tb # <<>>) =>
                  FLe(JaccardIndex(SeqRange(ta), SeqRange(tb)), ret[1].val)
           /\ FLe(FZero, ret[1].val) /\ FLe(ret[1].val, FOne)

\* the surname rule fires on names whose Jaccard index is above it
C12_Witness ==
    /\ pc = "done"
    /\ normalize_author(args[1].a) # normalize_author(args[1].b)
    /\ Len(normalize_author(args[1].a)) = 2
    /\ Len(normalize_author(args[1].b)) = 1
    /\ normalize_author(args[1].a)[2] = normalize_author(args[1].b)[1]
    /\ normalize_author(args[1].a)[1] = normalize_author(args[1].b)[1]
    /\ ret = <<Returned(FOne)>>

\* C13: an entry of STOPWORDS put in front of a name does not change the score
\* of the name against any other name; in particular a name behind "prof"
\* scores at least 0.6 against its abbreviated form.
C13_HonorificInvariance ==
    pc = "done" =>
        /\ ret[2] = ret[1]
        /\ (args[1].a = NameLiWu /\ args[1].b = NameLWu) => FLe(F06, ret[2].val)

\* the caller has made all its calls
AllCallsMade == pc = "done" /\ Len(ret) = Len(args)

\* C14: a word of IT_STOP appended to a title does not change the tokens of
\* the title, so the two titles score 1.0; every token of _tokens_fast is longer
\* than one character and is no word of IT_STOP.
C14_StopwordInvariance ==
    AllCallsMade =>
        /\ ret[2] = ret[1]
        /\ ret[3] = Returned(FOne)
        /\ \A t \in ret[2].val : Len(t) > 1 /\ t \notin IT_STOP

\* a call returned a number, float or int
ReturnedNumber(r) == r.kind = "return" /\ "val" \in DOMAIN r

\* the step table of the year score, by the distance d
YearTable(d) ==
    CASE d = 0 -> FOne
      [] d \in 1..5 -> F07
      [] d \in 6..10 -> F05
      [] d \in 11..20 -> F03
      [] d \in 21..50 -> F02
      [] d \in 51..100 -> F01
      [] OTHER -> F005

\* C15: for integer years at distance d similarity_years returns the number of
\* the step table for d; every d has a value; the value does not rise when d
\* grows by one; the arguments can be swapped.
C15_YearsStepFunction ==
    AllCallsMade =>
        LET d == Abs(args[1].a.int - args[1].b.int)
        IN /\ \A k \in 1..3 : ReturnedNumber(ret[k])
           /\ ret[1].val = YearTable(d)
           /\ ret[3].val = YearTable(d + 1)
           /\ FLe(ret[3].val, ret[1].val)
           /\ ret[2].val = ret[1].val

\* two years exactly five apart, the second before the first
C15_Witness ==
    /\ AllCallsMade
    /\ args[1].a.int - args[1].b.int = 5
    /\ ret[1] = Returned(F07)
    /\ ret[2] = Returned(F07)
    /\ ret[3] = Returned(F05)

\* C16: similarity_years raises nothing: an argument that is absent, no
\* number, or a number int() cannot convert gives 0.0.
C16_YearsNeverRaises ==
    AllCallsMade =>
        /\ ret[1].kind = "return"
        /\ (\E v \in {args[1].a, args[1].b} :
                v = PyNone \/ ~IsNumber(v) \/ v \in {PyNaN, PyInf, PyNegInf})
              => ret[1] = Returned(FZero)

\* C17: an element of an author list that is None or no string has no tokens
\* and scores 0.0 against every element, itself included, and with such
\* elements in the lists both list similarities return.
C17_NullElements ==
    /\ (pc = "sa_loop" /\ row = 1) =>
           \A e \in SeqRange(lst1.items) \cup SeqRange(lst2.items) :
               ~IsStr(e) => normalize_author(e) = <<>>
    /\ (pc = "sa_loop" /\ row = 1) =>
           \A i \in DOMAIN lst1.items, j \in DOMAIN lst2.items :
               (~IsStr(lst1.items[i]) \/ ~IsStr(lst2.items[j])) =>
                   sim_matrix[i][j] = FZero
    /\ (pc = "h_init") =>
           \A i \in DOMAIN lst1.items, j \in DOMAIN lst2.items :
               (~IsStr(lst1.items[i]) \/ ~IsStr(lst2.items[j])) => sim[i][j] = FZero
    /\ (pc = "done" /\ BothLists) =>
           /\ greedy_result.kind = "return"
           /\ hung_result.kind = "return"

\* a list with a name, None and a non-string against a list that holds None
C17_Witness ==
    /\ pc = "done"
    /\ BothLists
    /\ lst1.items = <<NameLiWu, PyNone, PyInt(7)>>
    /\ lst2.items = <<PyNone, NameLiWu>>
    /\ greedy_result.kind = "return"
    /\ hung_result.kind = "return"
    /\ FLt(FZero, hung_result.val)

RECURSIVE MainLoop(_, _, _, _, _)
MainLoop(M, mk, rc, cc, n) ==
    IF n >= Len(M) THEN Computed(ExtractAssignment(mk, 1))
    ELSE LET z == find_a_zero(M, rc, cc)
         IN IF z = <<0, 0>> THEN MainLoop(AdjustMatrix(M, rc, cc), mk, rc, cc, n)
            ELSE IF find_star_in_row(mk, z[1]) # 0
            THEN MainLoop(M, [mk EXCEPT ![z[1]][z[2]] = 2], [rc EXCEPT ![z[1]] = TRUE],
                          [cc EXCEPT ![find_star_in_row(mk, z[1])] = FALSE], n)
            ELSE LET primed == [mk EXCEPT ![z[1]][z[2]] = 2]
                     path == BuildPath(primed, z[2], << z >>)
                     mk2 == clear_primes(augment_path(primed, path, 1))
                     cc2 == cover_star_columns(mk2, AllFalse(Len(M)))
                 IN IF PathBroken(path) THEN Raised("TypeError")
                    ELSE MainLoop(M, mk2, AllFalse(Len(M)), cc2, CoveredCount(cc2))

\* what hungarian_min_cost returns for each matrix when no other call runs
RunAlone ==
    [m \in ThreadMatrices |->
        LET R == ColReduce(RowReduce(m))
            mk == InitialStars(R)
            cc == cover_star_columns(mk, AllFalse(Len(m)))
        IN MainLoop(R, mk, AllFalse(Len(m)), cc, CoveredCount(cc))]

\* the objects a thread's call works on
WorkingRefs(t) ==
    {frames[t].C, frames[t].mask, frames[t].row_cover, frames[t].col_cover} \ {Unset}

\* C19: concurrent calls do not interfere. Under every interleaving of two
\* calls of hungarian_min_cost, on two matrices or on the same matrix object,
\* each call returns what it returns when run alone, and the working matrix,
\* the mask and the covers of a call are objects of that call only: no object
\* is worked on by both calls, and none is an argument of either.
C19_ConcurrentCallsIndependent ==
    /\ \A t \in Threads : ret[t] # Pending => ret[t] = RunAlone[args[t].b]
    /\ \A t \in Threads : \A u \in Threads \ {t} :
          /\ WorkingRefs(t) \cap WorkingRefs(u) = {}
          /\ frames[u].cost \notin WorkingRefs(t)
          /\ frames[t].cost \notin WorkingRefs(t)

\* both calls ran while the other was under way, on the same matrix object,
\* one that needs the adjustment, and both returned
C19_Witness ==
    /\ \A t \in Threads : ret[t] # Pending /\ frames[t].overlapped
    /\ frames[1].cost = frames[2].cost
    /\ Len(args[1].b) = 3
    /\ \E i \in 1..3, j \in 1..3 : heap[<<1, "C">>][i][j] # ColReduce(RowReduce(args[1].b))[i][j]

\* C20: no core call changes what the caller passed. Every step of the two
\* list similarities leaves both argument lists as they were, and every step
\* of hungarian_min_cost leaves the cost matrix it was given as it was: the
\* reductions and the adjustments change the working copy only.
C20_ArgumentsUnchanged ==
    [][/\ lst1' = lst1
       /\ lst2' = lst2
       /\ pc \in {"h_init", "h_loop"} => cost' = cost]_vars

\* both list similarities returned for two lists of authors, and
\* hungarian_min_cost changed its working copy of the cost matrix
C20_Witness ==
    /\ pc = "done"
    /\ NonEmptyLists
    /\ greedy_result.kind = "return" /\ hung_result.kind = "return"
    /\ C # cost
    /\ last = "extract"

\* C21: the optimal matching treats the author lists as unordered. For two
\* non-empty lists, similarity_authors_hungarian returns the same value when
\* each list is handed over in any other order, and when the two lists are
\* exchanged.
C21_OrderInsensitive ==
    AllCallsMade => ret[2][2] = ret[1][2]

\* the entry of the work processed last
LastEntry == works_match.stats_data[Len(works_match.stats_data)]

\* the score of the k-th work of work_results against the row processed last
ResultScore(k) ==
    Score(works_match.data[works_match.count].TITOLO, works_match.authors,
          works_match.data[works_match.count].ANNO, works_match.work_results[k].work).val

\* a work with results has been processed
WorkScored ==
    works_match.pc \in {"loop", "end"} /\ works_match.count >= 1
        /\ Len(works_match.work_results) >= 1

\* C22: in works_match the composite score of a candidate is
\* 0.5*title + 0.25*authors + 0.25*year similarity and lies in [0, 1]; the
\* recorded similarity_score is the largest score of the candidates, and the
\* recorded best match is the first candidate in result order with that score.
C22_CompositeScore ==
    /\ works_match.count = 0 =>
          \A e \in works_match.scores :
             /\ e[5] = Computed(FAdd(FAdd(FDiv(similarity_titles(e[1], e[4].display_name), 2),
                                          FDiv(similarity_authors(e[2], e[4].authors_OA), 4)),
                                     FDiv(similarity_years(e[3], e[4].publication_year).val, 4)))
             /\ FLe(FZero, e[5].val) /\ FLe(e[5].val, FOne)
    /\ WorkScored =>
          \E k \in DOMAIN works_match.work_results :
             /\ \A j \in DOMAIN works_match.work_results :
                   /\ FLe(ResultScore(j), ResultScore(k))
                   /\ j < k => ResultScore(j) # ResultScore(k)
             /\ LastEntry.similarity_score = Computed(ResultScore(k))
             /\ LastEntry.openalex_id = PyInt(works_match.work_results[k].id)

\* three candidates, the last two with the same score above the first one's,
\* and the second recorded as the best match
C22_Witness ==
    /\ WorkScored
    /\ Len(works_match.work_results) = 3
    /\ FLt(ResultScore(1), ResultScore(2))
    /\ ResultScore(3) = ResultScore(2)
    /\ LastEntry.openalex_id = PyInt(2)
    /\ FLt(LastEntry.similarity_score.val, FOne)

Rank(search) == CHOOSE i \in DOMAIN Attempts : Attempts[i] = search

\* the row under way, or processed last, has a DOI
HasDOI ==
    LET doi == works_match.data[works_match.count].CD_DOI
    IN doi # PyNone /\ doi.chars # <<>>

\* a request came back with status 200 and at least one result
Answered(request) == request.status_code = 200 /\ request.count >= 1

\* C26: the searches for one work are tried in the fixed order DOI (only for a
\* record with a DOI), title filter with institution and year, general search
\* with institution and year, general search without filters; a search is
\* issued only when every earlier one came back with a status other than 200
\* or without a result; and the recorded search_method names the search that
\* produced the candidates.
C26_SearchOrder ==
    (works_match.count >= 1 /\ works_match.pc # "traceback") =>
        LET issued == works_match.issued
        IN /\ issued # <<>> => Rank(issued[1].search) = IF HasDOI THEN 1 ELSE 2
           /\ \A i \in DOMAIN issued :
                 /\ i > 1 => Rank(issued[i].search) = Rank(issued[i - 1].search) + 1
                 /\ i < Len(issued) => ~Answered(issued[i])
           /\ works_match.work_results # <<>> =>
                 /\ Answered(issued[Len(issued)])
                 /\ works_match.work_stats.search_method = issued[Len(issued)].search
           /\ WorkScored => LastEntry.search_method = issued[Len(issued)].search

\* a work with a DOI whose first three searches found nothing and whose
\* search by title only produced the candidates that were recorded
C26_Witness ==
    /\ WorkScored
    /\ HasDOI
    /\ Len(works_match.issued) = 4
    /\ works_match.issued[2].status_code = 200
    /\ works_match.issued[3].status_code = 500
    /\ LastEntry.search_method = "title_only"
    /\ LastEntry.matched

\* the search by title only came back with status 200 and no result, and the
\* work has been processed
NothingFound ==
    /\ works_match.pc \in {"loop", "end"} /\ works_match.count >= 1
    /\ works_match.issued # <<>>
    /\ works_match.issued[Len(works_match.issued)] =
          [search |-> "title_only", status_code |-> 200, count |-> 0]

\* C27: when the final search by title only responds with status 200 and no
\* results, the work is recorded as unmatched (matched and match_found False)
\* with search_method 'title_only'.
C27_NoMatchRecorded ==
    NothingFound =>
        /\ LastEntry.matched = FALSE
        /\ LastEntry.match_found = FALSE
        /\ LastEntry.search_method = "title_only"

\* C28: with statistics enabled every work processed without a fatal error
\* appends exactly one entry to stats_data, whether it had no match, a single
\* candidate or several: after k completed iterations stats_data has k entries,
\* and calculate_statistics reports matched + unmatched = total_works.
C28_OneEntryPerWork ==
    /\ works_match.pc \in {"loop", "end"} => Len(works_match.stats_data) = works_match.count
    /\ works_match.pc \in SeqRange(Attempts) \cup {"process", "evaluate"} =>
          Len(works_match.stats_data) = works_match.count - 1
    /\ works_match.pc = "end" =>
          /\ works_match.stats.total_works = Len(works_match.data)
          /\ works_match.stats.matched + works_match.stats.unmatched
                = works_match.stats.total_works

\* two works were processed, one without a match and one with several
\* candidates, and the statistics count one of each
C28_Witness ==
    /\ works_match.pc = "end"
    /\ works_match.count = 2
    /\ works_match.stats_data[1].matched = FALSE
    /\ Len(works_match.work_results) > 1
    /\ works_match.stats = [total_works |-> 2, matched |-> 1, match_found |-> 1, unmatched |-> 1]

StarsIn(cells) == Cardinality({p \in cells : mask[p[1]][p[2]] = 1})

\* C23: in every state of hungarian_min_cost after the initial starring, also
\* after each adjustment, priming and augmentation, every row and every column
\* holds at most one starred cell and every starred or primed cell holds 0 in
\* the working matrix; and no entry of the working matrix is negative: an
\* adjustment never subtracts more than an entry holds.
C23_StarsIndependentOnZeros ==
    /\ [](pc \in {"h_loop", "h_return"} =>
            /\ \A i \in DOMAIN mask :
                  /\ StarsIn({i} \X DOMAIN mask) <= 1
                  /\ StarsIn((DOMAIN mask) \X {i}) <= 1
            /\ \A i \in DOMAIN mask, j \in DOMAIN mask :
                  mask[i][j] \in {1, 2} => C[i][j] = FZero)
    /\ [][HungAdjust =>
            \A i \in DOMAIN C, j \in DOMAIN C :
               ~col_cover[j] =>
                  FLe(smallest_uncovered(C, row_cover, col_cover),
                      IF row_cover[i]
                      THEN FAdd(C[i][j], smallest_uncovered(C, row_cover, col_cover))
                      ELSE C[i][j])]_vars

\* after an adjustment: a starred and a primed cell, and an entry above 0
C23_Witness ==
    /\ pc = "h_loop"
    /\ last = "adjust"
    /\ \E i \in DOMAIN mask, j \in DOMAIN mask : mask[i][j] = 1
    /\ \E i \in DOMAIN mask, j \in DOMAIN mask : mask[i][j] = 2
    /\ \E i \in DOMAIN C, j \in DOMAIN C : FLt(FZero, C[i][j])

Stars == {p \in (DOMAIN mask) \X (DOMAIN mask) : mask[p[1]][p[2]] = 1}

\* C24: in hungarian_min_cost every augmentation raises the number of starred
\* cells by exactly one and leaves no primed cell and no covered row; no other
\* step of the main loop changes the set of starred cells; and the alternating
\* path never meets a starred row without a primed cell, so no call ends in
\* the TypeError of indexing with None.
C24_AugmentationAddsOneStar ==
    /\ [][HungAugment =>
            /\ Cardinality(Stars') = Cardinality(Stars) + 1
            /\ \A i \in DOMAIN mask, j \in DOMAIN mask : mask'[i][j] # 2
            /\ \A i \in DOMAIN row_cover : ~row_cover'[i]]_vars
    /\ [][(HungAdjust \/ HungPrimeCover \/ HungExtract) => Stars' = Stars]_vars
    /\ [][HungAugment => hung_result' # Raised("TypeError")]_vars

\* an augmentation after an adjustment that completed the stars of a 3 x 3 matrix
C24_Witness ==
    /\ pc = "h_loop"
    /\ last = "augment"
    /\ Len(cost) = 3
    /\ Cardinality(Stars) = 3
    /\ C # ColReduce(RowReduce(cost))
    /\ \E p \in Stars : p[1] # p[2]

\* C25: author_similarity is symmetric: author_similarity(a, b) equals
\* author_similarity(b, a) for all arguments, strings or not.
C25_AuthorSymmetric ==
    AllCallsMade => ret[1] = ret[2]

\* two names with different numbers of tokens and a score strictly between 0
\* and 1 that no rule raised
C25_Witness ==
    /\ AllCallsMade
    /\ IsStr(args[1].a) /\ IsStr(args[1].b)
    /\ Len(normalize_author(args[1].a)) < Len(normalize_author(args[1].b))
    /\ ret[1] = Returned(FDiv(FOne, 2))


\* the flags of an entry of stats_data that are True
MatchFlags(entry) ==
    {f \in {"compatible_match_found", "similar_match_found", "no_compatible_match"} :
        entry[f]}

\* the author just entered had several candidates, the DOI analysis was
\* performed and at least one work author was counted
Analysed ==
    /\ Len(authors_match.oa_authors) > 1
    /\ authors_match.author_stats.doi_analysis_performed
    /\ authors_match.counter # <<>>

\* C29: an author with several candidates whose DOI analysis counted at least
\* one work author gets exactly one of compatible_match_found,
\* similar_match_found and no_compatible_match; every other author gets none;
\* and similar_match_found is set only when a counted work author scores
\* strictly above 0.7 against the IRIS name and none of the three most frequent
\* work authors is a candidate.
C29_ExactlyOneOutcome ==
    authors_match # Unset /\ authors_match.stats_data # <<>> =>
        LET am == authors_match
            entry == am.stats_data[Len(am.stats_data)]
            top == Top3(am.counter)
        IN /\ \A k \in DOMAIN am.stats_data :
                 /\ Cardinality(MatchFlags(am.stats_data[k])) <= 1
                 /\ MatchFlags(am.stats_data[k]) # {} =>
                       /\ am.stats_data[k].doi_analysis_performed
                       /\ am.stats_data[k].matches_found > 1
           /\ am.pc = "loop" =>
                 /\ entry = am.author_stats
                 /\ IF Analysed THEN Cardinality(MatchFlags(entry)) = 1
                                ELSE MatchFlags(entry) = {}
                 /\ entry.similar_match_found =>
                       /\ \E i \in DOMAIN am.counter :
                             FLt(F07, author_similarity(am.counter[i].key[1],
                                                        iris_full_name(entry)))
                       /\ \A i \in DOMAIN top : \A j \in DOMAIN am.oa_authors :
                             top[i].key[2] # am.oa_authors[j][2]

\* an author is entered with similar_match_found although one of the
\* candidates was counted: it is the fourth of four work authors
C29_Witness ==
    /\ authors_match # Unset
    /\ authors_match.pc = "loop"
    /\ Analysed
    /\ authors_match.author_stats.similar_match_found
    /\ Len(authors_match.counter) = 4
    /\ authors_match.counter[4].key[2] = authors_match.oa_authors[1][2]
    /\ authors_match.stats_data[Len(authors_match.stats_data)] = authors_match.author_stats


\* control has left a function of db_utils that had its connection and cursor
Left == db # Unset /\ db.pc = "idle" /\ db.calls > 0

\* C30: execute_insert and execute_insert_many commit when the statement
\* succeeds, roll back and raise a database error when it fails, and in both
\* cases close the cursor and the connection before control leaves the
\* function; execute_query closes both as well, whatever the statement did.
C30_CommitRollbackClose ==
    /\ Left =>
          /\ db.cursor = "closed" /\ db.conn = "closed"
          /\ Len(db.events) >= 2
          /\ SubSeq(db.events, Len(db.events) - 1, Len(db.events))
                = <<"cursor.close", "conn.close">>
          /\ db.result # Pending
    /\ Left /\ db.fn # "execute_query" /\ db.statement = "ok" =>
          /\ db.events[2] = "commit"
          /\ db.result # Raised("Error") =>
                /\ db.result = [kind |-> "return", affected_rows |-> db.params]
                /\ db.stored = db.before + db.params
                /\ \A i \in DOMAIN db.events : db.events[i] # "rollback"
    /\ Left /\ db.fn # "execute_query" /\ db.statement = "failed" =>
          /\ db.events[2] = "rollback"
          /\ \A i \in DOMAIN db.events : db.events[i] # "commit"
          /\ db.result = Raised("Error")
          /\ db.stored = db.before
          /\ db.pending = 0
    /\ db # Unset /\ db.pc \in {"try", "except", "finally"} =>
          /\ db.cursor = "open" /\ db.conn = "open"
          /\ db.result = Pending

\* a batch failed after its first row: it was rolled back, the error was
\* raised, cursor and connection are closed and the table is as it was
C30_Witness ==
    /\ Left
    /\ db.fn = "execute_insert_many" /\ db.params = 2
    /\ db.events = <<"executemany(query, params_list)", "rollback",
                     "cursor.close", "conn.close">>
    /\ db.result = Raised("Error")
    /\ db.stored = db.before /\ db.before > 0
    /\ db.conn = "closed" /\ db.cursor = "closed"

====
